---- MODULE Spec2Model ----
(***************************************************************************)
(* A model of pyconfigreader.reader.ConfigReader (src/pyconfigreader/      *)
(* reader.py): the parser it wraps, the StringIO buffer it serialises to,  *)
(* the files on disk and the class-level default seed.                     *)
(*                                                                         *)
(* Text is modelled character by character: a Python str is a sequence of  *)
(* one-character strings, so that serialising, overwriting the buffer,     *)
(* parsing, interpolating and evaluating are computed as the code and the  *)
(* standard library compute them.                                          *)
(***************************************************************************)
EXTENDS Integers, Sequences, FiniteSets, TLC

(***************************************************************************)
(* Python str helpers                                                      *)
(***************************************************************************)
Min(S) == CHOOSE x \in S : \A y \in S : x <= y
Max(S) == CHOOSE x \in S : \A y \in S : x >= y

IsSpace(c) == c \in {" ", "\t", "\n"}

\* s[i:] (1-based, inclusive)
Drop(s, i) == SubSeq(s, i, Len(s))

\* str.find of a one-character needle: the first index, 0 when absent
FindChar(s, c) ==
  LET I == {i \in 1..Len(s) : s[i] = c}
  IN IF I = {} THEN 0 ELSE Min(I)

\* whether p occurs in s at index i
MatchAt(s, p, i) ==
  /\ i >= 1
  /\ i + Len(p) - 1 <= Len(s)
  /\ \A j \in 1..Len(p) : s[i + j - 1] = p[j]

StartsWith(s, p) == MatchAt(s, p, 1)

Strip(s) ==
  LET I == {i \in 1..Len(s) : ~IsSpace(s[i])}
  IN IF I = {} THEN <<>> ELSE SubSeq(s, Min(I), Max(I))

Rstrip(s) ==
  LET I == {i \in 1..Len(s) : ~IsSpace(s[i])}
  IN IF I = {} THEN <<>> ELSE SubSeq(s, 1, Max(I))

Lstrip(s) ==
  LET I == {i \in 1..Len(s) : ~IsSpace(s[i])}
  IN IF I = {} THEN <<>> ELSE Drop(s, Min(I))

\* str.replace(old, new), scanning left to right over non-overlapping matches
RECURSIVE Replace(_, _, _)
Replace(s, old, new) ==
  IF s = <<>> THEN <<>>
  ELSE IF MatchAt(s, old, 1) THEN new \o Replace(Drop(s, Len(old) + 1), old, new)
  ELSE <<s[1]>> \o Replace(Drop(s, 2), old, new)

\* sep.join(parts)
RECURSIVE Join(_, _)
Join(parts, sep) ==
  IF parts = <<>> THEN <<>>
  ELSE IF Len(parts) = 1 THEN parts[1]
  ELSE parts[1] \o sep \o Join(Tail(parts), sep)

\* the lines a text file yields when iterated, without their line ends
RECURSIVE SplitLines(_)
SplitLines(t) ==
  IF t = <<>> THEN <<>>
  ELSE LET p == FindChar(t, "\n")
       IN IF p = 0 THEN <<t>>
          ELSE <<SubSeq(t, 1, p - 1)>> \o SplitLines(Drop(t, p + 1))

UpperAlpha ==
  <<"A","B","C","D","E","F","G","H","I","J","K","L","M",
    "N","O","P","Q","R","S","T","U","V","W","X","Y","Z">>
LowerAlpha ==
  <<"a","b","c","d","e","f","g","h","i","j","k","l","m",
    "n","o","p","q","r","s","t","u","v","w","x","y","z">>

LowerChar(c) ==
  IF \E i \in 1..26 : UpperAlpha[i] = c
  THEN LowerAlpha[CHOOSE i \in 1..26 : UpperAlpha[i] = c]
  ELSE c
UpperChar(c) ==
  IF \E i \in 1..26 : LowerAlpha[i] = c
  THEN UpperAlpha[CHOOSE i \in 1..26 : LowerAlpha[i] = c]
  ELSE c

\* str.lower, str.upper
Lower(s) == [i \in 1..Len(s) |-> LowerChar(s[i])]
Upper(s) == [i \in 1..Len(s) |-> UpperChar(s[i])]

(***************************************************************************)
(* The parser (configparser.ConfigParser as ConfigReader uses it).  A      *)
(* parser is the ordered sequence of its sections, each the ordered        *)
(* sequence of its options: <<[name, opts: <<[k, v]>>]>>.                  *)
(***************************************************************************)
\* an optionxform that keeps the case whatever case_sensitive is
optionxform_str(cs, option) == option
\* parser.optionxform: str.lower, or str when case_sensitive
optionxform(cs, option) == IF cs THEN option ELSE Lower(option)

SecIndex(parser, section) ==
  LET I == {i \in 1..Len(parser) : parser[i].name = section}
  IN IF I = {} THEN 0 ELSE Min(I)

OptIndex(opts, option) ==
  LET I == {i \in 1..Len(opts) : opts[i].k = option}
  IN IF I = {} THEN 0 ELSE Min(I)

has_section(parser, section) == SecIndex(parser, section) # 0

\* an assignment that moves an existing key to the end
PutOptLast(opts, option, value) ==
  SelectSeq(opts, LAMBDA o : o.k # option) \o <<[k |-> option, v |-> value]>>

\* dict[key] = value on an ordered dict: an existing key keeps its place
PutOpt(opts, option, value) ==
  LET i == OptIndex(opts, option)
  IN IF i = 0 THEN Append(opts, [k |-> option, v |-> value])
     ELSE [opts EXCEPT ![i].v = value]

DelAt(seq, i) == SubSeq(seq, 1, i - 1) \o SubSeq(seq, i + 1, Len(seq))

\* parser.write(fp): the text of every section, "[name]", "key = value" with
\* the value's line ends followed by a tab, and an empty line
RECURSIVE WriteOpts(_)
WriteOpts(opts) ==
  IF opts = <<>> THEN <<>>
  ELSE opts[1].k \o <<" ", "=", " ">> \o Replace(opts[1].v, <<"\n">>, <<"\n", "\t">>)
       \o <<"\n">> \o WriteOpts(Tail(opts))

RECURSIVE ParserWrite(_)
ParserWrite(parser) ==
  IF parser = <<>> THEN <<>>
  ELSE <<"[">> \o parser[1].name \o <<"]", "\n">> \o WriteOpts(parser[1].opts)
       \o <<"\n">> \o ParserWrite(Tail(parser))

(***************************************************************************)
(* RawConfigParser._read: one step per line.  While a source is read, the  *)
(* value of an option found in it is the list of its lines (list = TRUE);  *)
(* the options the parser held before keep their string (list = FALSE).    *)
(***************************************************************************)
ReadInit(parser) ==
  [secs |-> [i \in 1..Len(parser) |->
               [name |-> parser[i].name,
                opts |-> [j \in 1..Len(parser[i].opts) |->
                            [k |-> parser[i].opts[j].k, list |-> FALSE,
                             lines |-> <<parser[i].opts[j].v>>]]]],
   cur |-> 0, sectname |-> <<>>, optname |-> <<>>, indent |-> 0,
   added |-> {}, e |-> FALSE, fatal |-> ""]

\* SECTCRE.match(value): "[", one character or more, and the last "]"
IsHeader(value) == value[1] = "[" /\ \E j \in 3..Len(value) : value[j] = "]"
HeaderName(value) ==
  SubSeq(value, 2, Max({j \in 3..Len(value) : value[j] = "]"}) - 1)

\* OPTCRE.match(value): the first "=" or ":" delimits option and value
DelimAt(value) ==
  LET I == {i \in 1..Len(value) : value[i] \in {"=", ":"}}
  IN IF I = {} THEN 0 ELSE Min(I)

\* cursect[optname].append(line)
AppendLine(P, line) ==
  LET i == OptIndex(P.secs[P.cur].opts, P.optname)
  IN [P EXCEPT !.secs[P.cur].opts[i].lines = Append(@, line)]

\* the section header sectname, i being the place of that section (0: new)
EnterSection(P, sectname, i) ==
  IF i # 0
  THEN IF <<"section", sectname>> \in P.added
       THEN [P EXCEPT !.fatal = "DuplicateSectionError"]
       ELSE [P EXCEPT !.cur = i, !.sectname = sectname, !.optname = <<>>,
                      !.added = @ \cup {<<"section", sectname>>}]
  ELSE [P EXCEPT !.secs = Append(@, [name |-> sectname, opts |-> <<>>]),
                 !.cur = Len(P.secs) + 1, !.sectname = sectname,
                 !.optname = <<>>,
                 !.added = @ \cup {<<"section", sectname>>}]

ReadHeader(P, value) ==
  EnterSection(P, HeaderName(value), SecIndex(P.secs, HeaderName(value)))

\* the option line with its name as written (raw), as stored (optname) and
\* its value
EnterOption(P, raw, optname, optval) ==
  LET i == OptIndex(P.secs[P.cur].opts, optname)
      entry == [k |-> optname, list |-> TRUE, lines |-> <<optval>>]
  IN IF <<"option", P.sectname, optname>> \in P.added
     THEN [P EXCEPT !.fatal = "DuplicateOptionError",
                    !.e = @ \/ optname = <<>>, !.optname = optname]
     ELSE [P EXCEPT !.e = @ \/ raw = <<>>,
                    !.optname = optname,
                    !.added = @ \cup {<<"option", P.sectname, optname>>},
                    !.secs[P.cur].opts =
                       IF i = 0 THEN Append(@, entry) ELSE [@ EXCEPT ![i] = entry]]

\* the option line whose delimiter is at d (0: the line matches nothing)
SplitOption(P, value, cs, d) ==
  IF d = 0 THEN [P EXCEPT !.e = TRUE]
  ELSE EnterOption(P, Rstrip(SubSeq(value, 1, d - 1)),
                   optionxform(cs, Rstrip(SubSeq(value, 1, d - 1))),
                   Strip(Drop(value, d + 1)))

ReadOption(P, value, cs) == SplitOption(P, value, cs, DelimAt(value))

\* a line that is no continuation: a header or an option
ReadEntry(Q, value, cs) ==
  IF IsHeader(value) THEN ReadHeader(Q, value)
  ELSE IF Q.cur = 0 THEN [Q EXCEPT !.fatal = "MissingSectionHeaderError"]
  ELSE ReadOption(Q, value, cs)

\* one line, with what is left of it without comment (value), whether it is
\* a comment, and its indentation
ReadStripped(P, value, comment, cur_indent_level, cs) ==
  IF value = <<>>
  THEN IF ~comment /\ P.cur # 0 /\ P.optname # <<>>
       THEN AppendLine(P, <<>>)
       ELSE P
  ELSE IF P.cur # 0 /\ P.optname # <<>> /\ cur_indent_level > P.indent
  THEN AppendLine(P, value)
  ELSE ReadEntry([P EXCEPT !.indent = cur_indent_level], value, cs)

IsComment(stripped) == stripped # <<>> /\ stripped[1] \in {"#", ";"}

ReadLine(P, line, cs) ==
  ReadStripped(P, IF IsComment(Strip(line)) THEN <<>> ELSE Strip(line),
               IsComment(Strip(line)), Len(line) - Len(Lstrip(line)), cs)

RECURSIVE ReadLines(_, _, _)
ReadLines(P, lines, cs) ==
  IF lines = <<>> \/ P.fatal # "" THEN P
  ELSE ReadLines(ReadLine(P, lines[1], cs), Tail(lines), cs)

\* _join_multiline_values: '\n'.join(val).rstrip() for every list
JoinValues(secs) ==
  [i \in 1..Len(secs) |->
     [name |-> secs[i].name,
      opts |-> [j \in 1..Len(secs[i].opts) |->
                  [k |-> secs[i].opts[j].k,
                   v |-> IF secs[i].opts[j].list
                         THEN Rstrip(Join(secs[i].opts[j].lines, <<"\n">>))
                         ELSE secs[i].opts[j].lines[1]]]]]

\* what a read that ends in P gives: exc is "" or the exception raised; an
\* exception raised inside the loop (fatal) leaves the values read so far as
\* lists of lines: the parser is then broken
ReadResult(P) ==
  [exc |-> IF P.fatal # "" THEN P.fatal
           ELSE IF P.e THEN "ParsingError" ELSE "",
   broken |-> P.fatal # "" /\ \E i \in 1..Len(P.secs) :
                 \E j \in 1..Len(P.secs[i].opts) : P.secs[i].opts[j].list,
   parser |-> JoinValues(P.secs)]

\* parser.read / parser.read_file of a text into a parser
ParserRead(parser, text, cs) ==
  ReadResult(ReadLines(ReadInit(parser), SplitLines(text), cs))

(***************************************************************************)
(* BasicInterpolation                                                      *)
(***************************************************************************)
MAX_INTERPOLATION_DEPTH == 10

\* _KEYCRE.match(s) at index i, "%(" name ")s" with a name of one character
\* or more and no ")": the index of the closing "s", 0 when there is no match
KeyMatchEnd(s, i) ==
  IF ~MatchAt(s, <<"%", "(">>, i) THEN 0
  ELSE LET C == {j \in (i + 2)..Len(s) : s[j] = ")"}
       IN IF C = {} THEN 0
          ELSE IF Min(C) >= i + 3 /\ MatchAt(s, <<"s">>, Min(C) + 1)
               THEN Min(C) + 1 ELSE 0

\* _KEYCRE.sub('', s)
RECURSIVE KeySub(_)
KeySub(s) ==
  IF s = <<>> THEN <<>>
  ELSE IF KeyMatchEnd(s, 1) # 0 THEN KeySub(Drop(s, KeyMatchEnd(s, 1) + 1))
  ELSE <<s[1]>> \o KeySub(Drop(s, 2))

\* before_set: TRUE when the value is accepted, FALSE for its ValueError
before_set(value) ==
  FindChar(KeySub(Replace(value, <<"%", "%">>, <<>>)), "%") = 0

\* the section's raw value of an option, for the interpolation map
MapGet(opts, var) == opts[OptIndex(opts, var)].v

Plain(val) == [exc |-> "", val |-> val]

\* an accum that keeps only what was appended first
AccumHead(head, more) ==
  IF head.exc # "" THEN head
  ELSE IF more.exc # "" THEN more
  ELSE Plain(head.val)

\* accum.append(...) of head, the loop having gone on with the rest (more)
Accum(head, more) ==
  IF head.exc # "" THEN head
  ELSE IF more.exc # "" THEN more
  ELSE Plain(head.val \o more.val)

\* _interpolate_some: [exc, val], val being what is appended to accum
RECURSIVE interpolate_some(_, _, _, _)
RECURSIVE InterpolateRest(_, _, _, _)
RECURSIVE InterpolateKey(_, _, _, _, _)
interpolate_some(rest, opts, cs, depth) ==
  IF depth > MAX_INTERPOLATION_DEPTH
  THEN [exc |-> "InterpolationDepthError", val |-> <<>>]
  ELSE InterpolateRest(rest, opts, cs, depth)

\* the loop over rest, from its first "%" on
InterpolateRest(rest, opts, cs, depth) ==
  LET p == FindChar(rest, "%")
  IN IF rest = <<>> \/ p = 0 THEN Plain(rest)
     ELSE IF p > 1
     THEN Accum(Plain(SubSeq(rest, 1, p - 1)),
                InterpolateRest(Drop(rest, p), opts, cs, depth))
     ELSE IF MatchAt(rest, <<"%", "%">>, 1)
     THEN Accum(Plain(<<"%">>), InterpolateRest(Drop(rest, 3), opts, cs, depth))
     ELSE IF MatchAt(rest, <<"%", "(">>, 1)
     THEN InterpolateKey(rest, opts, cs, depth, KeyMatchEnd(rest, 1))
     ELSE [exc |-> "InterpolationSyntaxError", val |-> <<>>]

\* rest starts with "%(": m is where the reference ends (0: it does not)
InterpolateKey(rest, opts, cs, depth, m) ==
  LET var == optionxform(cs, SubSeq(rest, 3, m - 2))
  IN IF m = 0 THEN [exc |-> "InterpolationSyntaxError", val |-> <<>>]
     ELSE IF OptIndex(opts, var) = 0
     THEN [exc |-> "InterpolationMissingOptionError", val |-> <<>>]
     ELSE Accum(IF FindChar(MapGet(opts, var), "%") # 0
                THEN interpolate_some(MapGet(opts, var), opts, cs, depth + 1)
                ELSE Plain(MapGet(opts, var)),
                InterpolateRest(Drop(rest, m + 1), opts, cs, depth))

\* before_get
before_get(value, opts, cs) == interpolate_some(value, opts, cs, 1)

\* parser.get(section, option): [exc, val]
GetOption(opts, cs, o) ==
  IF OptIndex(opts, o) = 0
  THEN [exc |-> "NoOptionError", val |-> <<>>]
  ELSE before_get(MapGet(opts, o), opts, cs)

ParserGet(parser, cs, section, option) ==
  IF SecIndex(parser, section) = 0
  THEN [exc |-> "NoSectionError", val |-> <<>>]
  ELSE GetOption(parser[SecIndex(parser, section)].opts, cs, optionxform(cs, option))

\* parser.set(section, option, value) on an existing section: [exc, parser];
\* an empty value is not validated
ParserSet(parser, cs, section, option, value) ==
  LET i == SecIndex(parser, section)
  IN IF value # <<>> /\ ~before_set(value)
     THEN [exc |-> "ValueError", parser |-> parser]
     ELSE IF i = 0 THEN [exc |-> "NoSectionError", parser |-> parser]
     ELSE [exc |-> "",
           parser |-> [parser EXCEPT ![i].opts =
                          PutOpt(@, optionxform(cs, option), value)]]

(***************************************************************************)
(* Python values: [t, v] with t the type's name and v the text str(value)  *)
(* gives, in canonical form ("2" for the int 2, "1.5" for the float 1.5).  *)
(***************************************************************************)
PyStr(s) == [t |-> "str", v |-> s]
PyInt(s) == [t |-> "int", v |-> s]
PyTrue == [t |-> "bool", v |-> <<"T", "r", "u", "e">>]
PyFalse == [t |-> "bool", v |-> <<"F", "a", "l", "s", "e">>]
PyNone == [t |-> "NoneType", v |-> <<"N", "o", "n", "e">>]

\* str(value)
Str(value) == value.v
\* repr(value), for the elements of a list or a dict
Repr(value) == IF value.t = "str" THEN <<"'">> \o value.v \o <<"'">> ELSE value.v

Digits == {"0", "1", "2", "3", "4", "5", "6", "7", "8", "9"}
AllDigits(s) == s # <<>> /\ \A i \in 1..Len(s) : s[i] \in Digits

\* digits without their leading zeros ("0" for zero)
RECURSIVE StripZeros(_)
StripZeros(s) ==
  IF Len(s) > 1 /\ s[1] = "0" THEN StripZeros(Tail(s)) ELSE s
\* digits without their trailing zeros, one digit at least
RECURSIVE StripTrailingZeros(_)
StripTrailingZeros(s) ==
  IF Len(s) > 1 /\ s[Len(s)] = "0"
  THEN StripTrailingZeros(SubSeq(s, 1, Len(s) - 1)) ELSE s

\* an unsigned decimal integer literal: digits, no leading zero unless zero
IsIntLit(s) == AllDigits(s) /\ (s[1] # "0" \/ \A i \in 1..Len(s) : s[i] = "0")
\* an unsigned float literal of the form digits "." digits
IsFloatLit(s) ==
  LET d == FindChar(s, ".")
  IN d > 1 /\ d < Len(s) /\ AllDigits(SubSeq(s, 1, d - 1)) /\ AllDigits(Drop(s, d + 1))
FloatVal(s) ==
  LET d == FindChar(s, ".")
  IN [t |-> "float",
      v |-> StripZeros(SubSeq(s, 1, d - 1)) \o <<".">> \o StripTrailingZeros(Drop(s, d + 1))]

\* whether a number has a sign, and the number without it
HasSign(s) == s # <<>> /\ s[1] \in {"-", "+"}
Magnitude(s) == IF HasSign(s) THEN Tail(s) ELSE s

\* a number with an optional sign, as _convert_signed_num takes it
IsNumLit(s) == IsIntLit(Magnitude(s)) \/ IsFloatLit(Magnitude(s))
Signed(neg, m) ==
  IF neg /\ m # PyInt(<<"0">>) THEN [m EXCEPT !.v = <<"-">> \o @] ELSE m
NumVal(s) ==
  Signed(s[1] = "-",
         IF IsIntLit(Magnitude(s)) THEN PyInt(StripZeros(Magnitude(s)))
         ELSE FloatVal(Magnitude(s)))

\* a string literal in single quotes without quote, backslash or line end inside
IsStrLit(s) ==
  /\ Len(s) >= 2 /\ s[1] = "'" /\ s[Len(s)] = "'"
  /\ \A i \in 2..(Len(s) - 1) : s[i] \notin {"'", "\n"}

\* the atoms: True, False, None, a number, a string, the empty list.
\* [ok, val]: whether s is one, and its value
Atom(s) ==
  IF s = PyTrue.v THEN [ok |-> TRUE, val |-> PyTrue]
  ELSE IF s = PyFalse.v THEN [ok |-> TRUE, val |-> PyFalse]
  ELSE IF s = PyNone.v THEN [ok |-> TRUE, val |-> PyNone]
  ELSE IF IsNumLit(s) THEN [ok |-> TRUE, val |-> NumVal(s)]
  ELSE IF IsStrLit(s) THEN [ok |-> TRUE, val |-> PyStr(SubSeq(s, 2, Len(s) - 1))]
  ELSE IF s = <<"[", "]">> THEN [ok |-> TRUE, val |-> [t |-> "list", v |-> s]]
  ELSE [ok |-> FALSE, val |-> PyNone]

\* the source literal_eval parses: the string without the blanks and tabs
\* before it and without the blanks, tabs and line ends after it
Source(string) ==
  LET lead == {i \in 1..Len(string) : string[i] \notin {" ", "\t"}}
  IN IF lead = {} THEN <<>> ELSE Rstrip(Drop(string, Min(lead)))

\* s as an atom (whole), as "[" elem "]" or as "{" key ":" val "}"
Literal(string, s, whole, elem, key, val) ==
  IF whole.ok THEN [exc |-> "", val |-> whole.val]
  ELSE IF s[1] = "[" /\ s[Len(s)] = "]" /\ elem.ok
  THEN [exc |-> "",
        val |-> [t |-> "list", v |-> <<"[">> \o Repr(elem.val) \o <<"]">>]]
  ELSE IF s[1] = "{" /\ s[Len(s)] = "}" /\ FindChar(s, ":") # 0 /\ key.ok /\ val.ok
  THEN IF key.val.t = "list"
       THEN [exc |-> "TypeError", val |-> PyStr(string)]
       ELSE [exc |-> "",
             val |-> [t |-> "dict",
                      v |-> <<"{">> \o Repr(key.val) \o <<":", " ">>
                            \o Repr(val.val) \o <<"}">>]]
  ELSE [exc |-> "ValueError", val |-> PyStr(string)]

Parse(string, s) ==
  IF s = <<>> THEN [exc |-> "ValueError", val |-> PyStr(string)]
  ELSE Literal(string, s, Atom(s),
               Atom(Strip(SubSeq(s, 2, Len(s) - 1))),
               Atom(Strip(SubSeq(s, 2, FindChar(s, ":") - 1))),
               Atom(Strip(SubSeq(s, FindChar(s, ":") + 1, Len(s) - 1))))

\* ast.literal_eval of a str, for the literals of this model: an atom, a list
\* of one atom, a dict of one key and value.  [exc, val]: exc is "" or
\* "ValueError" (standing for SyntaxError too: _evaluate treats them alike) or
\* "TypeError" (a dict whose key is a list: unhashable)
literal_eval(string) == Parse(string, Source(string))

\* what _evaluate makes of the outcome of literal_eval
Evaluated(value, r) ==
  IF r.exc = "ValueError" THEN [exc |-> "", val |-> PyStr(Str(value))] ELSE r

\* ConfigReader._evaluate: [exc, val].  literal_eval of a value that is not
\* a str raises ValueError, which gives str(value)
evaluate(value) ==
  Evaluated(value, IF value.t # "str" THEN [exc |-> "ValueError", val |-> value]
                   ELSE literal_eval(value.v))

(***************************************************************************)
(* ConfigReader.  An instance is [st, filename, cs, parser, buf, broken,   *)
(* file]: st is "none" (not constructed), "open" or "closed"; buf is the   *)
(* content of __file_object, a StringIO unless file names the open file    *)
(* the instance was given; broken says that a read of the buffer stopped   *)
(* inside the parser's loop and left lists of lines as values.  The disk   *)
(* maps a path to [exists, text]; of an open file it holds what has been   *)
(* flushed.                                                                *)
(***************************************************************************)
default_section == <<"m", "a", "i", "n">>
reader == <<"r", "e", "a", "d", "e", "r">>
configreader == <<"c", "o", "n", "f", "i", "g", "r", "e", "a", "d", "e", "r">>

\* ConfigReader.__defaults as the class statement leaves it: an ordered dict
\* whose values are a str or, for a section, the ordered dict of its options
SeedDefaults ==
  <<[key |-> reader, isdict |-> FALSE, str |-> configreader, opts |-> <<>>]>>

NoInstance ==
  [st |-> "none", filename |-> <<>>, cs |-> FALSE, parser |-> <<>>, buf |-> <<>>,
   broken |-> FALSE, file |-> <<>>]

NoFile == [exists |-> FALSE, text |-> <<>>]

\* what a call gives back: the instance and the disk after it, the exception
\* raised ("" when none) and the value returned
Outcome(r, disk, exc, val) == [r |-> r, disk |-> disk, exc |-> exc, val |-> val]

\* section or self.__default_section
SectionOr(section) == IF section = <<>> THEN default_section ELSE section

\* _add_section: [exc, parser]
add_section(parser, section) ==
  IF Lower(section) = <<"d", "e", "f", "a", "u", "l", "t">>
  THEN [exc |-> "SectionNameNotAllowed", parser |-> parser]
  ELSE IF has_section(parser, section) THEN [exc |-> "", parser |-> parser]
  ELSE [exc |-> "",
        parser |-> Append(parser, [name |-> section, opts |-> <<>>])]

\* fp.seek(0); fp.write(text): the text replaces the head of the buffer and
\* leaves what the buffer held beyond it
Overwrite(buf, text) == text \o Drop(buf, Len(text) + 1)

\* _write_config: the buffer afterwards
write_config(r) == Overwrite(r.buf, ParserWrite(r.parser))

\* save: the file at filename gets the whole content of the buffer
save(r, disk) ==
  IF r.st # "open" THEN Outcome(r, disk, "AttributeError", PyNone)
  ELSE Outcome(r, [disk EXCEPT ![r.filename] = [exists |-> TRUE, text |-> r.buf]],
               "", PyNone)

\* a set that saves whether or not commit is given
CommitAlways(r, disk, commit) == save(r, disk)

\* if commit: self.save()
Commit(r, disk, commit) ==
  IF commit THEN save(r, disk) ELSE Outcome(r, disk, "", PyNone)

\* the value set() passes to the parser at its second attempt
Escaped(text) ==
  Replace(Replace(text, <<"%">>, <<"%", "%">>), <<"%", "%", "(">>, <<"%", "(">>)

\* the disk once what was written to the file object has been flushed: an
\* open file has the content of the buffer, a StringIO is not on the disk
Flush(r, disk) ==
  IF r.file = <<>> THEN disk
  ELSE [disk EXCEPT ![r.file] = [exists |-> TRUE, text |-> r.buf]]

\* the end of set: the parser holds the value (r), _write_config, whose
\* seek(0) flushes what an open file was written before, and the save
Written(r, disk, commit) ==
  IF r.st # "open" THEN Outcome(r, disk, "AttributeError", PyNone)
  ELSE Commit([r EXCEPT !.buf = write_config(r)], Flush(r, disk), commit)

\* set once the parser took or refused the value at the last attempt
Stored(r, disk, commit, stored) ==
  IF stored.exc # ""
  THEN Outcome([r EXCEPT !.parser = stored.parser], disk, stored.exc, PyNone)
  ELSE Written([r EXCEPT !.parser = stored.parser], disk, commit)

\* set after the first parser.set: first is its outcome, second that of the
\* parser.set of the except clause
Retried(r, disk, value, commit, first, second) ==
  IF first.exc # "" /\ value.t # "str"
  THEN Outcome([r EXCEPT !.parser = first.parser], disk, "AttributeError", PyNone)
  ELSE Stored(r, disk, commit, IF first.exc = "" THEN first ELSE second)

\* set after _add_section, a being its outcome and sec the section
Added(r, disk, key, value, sec, commit, a) ==
  IF a.exc # "" THEN Outcome(r, disk, a.exc, PyNone)
  ELSE Retried(r, disk, value, commit,
               ParserSet(a.parser, r.cs, sec, key, Str(value)),
               ParserSet(a.parser, r.cs, sec, key, Escaped(value.v)))

\* set(key, value, section, commit)
set(r, disk, key, value, section, commit) ==
  Added(r, disk, key, value, SectionOr(section), commit,
        add_section(r.parser, SectionOr(section)))

\* the end of get: st is the outcome of what came before, ev what _evaluate
\* makes of the value
Returned(st, ev) ==
  Outcome(st.r, st.disk, ev.exc, IF ev.exc = "" THEN ev.val ELSE PyNone)

\* get with its value: st is the outcome of what came before
Got(eval, st, value) ==
  IF st.exc # "" THEN st
  ELSE IF eval THEN Returned(st, evaluate(value))
  ELSE Outcome(st.r, st.disk, "", value)

\* a get that saves the instance when it has found the option
LookedSaving(r, disk, key, sec, eval, default, default_commit, g) ==
  IF g.exc = "" THEN Got(eval, save(r, disk), PyStr(g.val))
  ELSE Outcome(r, disk, g.exc, PyNone)

\* get after parser.get, g being its outcome
Looked(r, disk, key, sec, eval, default, default_commit, g) ==
  IF g.exc \notin {"", "NoSectionError", "NoOptionError"}
  THEN Outcome(r, disk, g.exc, PyNone)
  ELSE Got(eval,
           IF g.exc # "" /\ default # PyNone
           THEN set(r, disk, key, default, sec, default_commit)
           ELSE Outcome(r, disk, "", PyNone),
           IF g.exc = "" THEN PyStr(g.val)
           ELSE IF default # PyNone THEN default
           ELSE PyStr(PyNone.v))

\* get(key, section, evaluate, default, default_commit); a default of None
\* is no default
get(r, disk, key, section, eval, default, default_commit) ==
  Looked(r, disk, key, SectionOr(section), eval, default, default_commit,
         ParserGet(r.parser, r.cs, SectionOr(section), key))

\* the read of the buffer that remove_section and remove_option start with:
\* [exc, r]
Read(r, rd) ==
  [exc |-> rd.exc, r |-> [r EXCEPT !.parser = rd.parser, !.broken = rd.broken]]
Reread(r) == Read(r, ParserRead(r.parser, r.buf, r.cs))

\* _write_config and truncate: the buffer is the text of the parser
Rewritten(r) == [r EXCEPT !.buf = ParserWrite(r.parser)]

\* parser.remove_section
WithoutSection(r, i) == IF i = 0 THEN r ELSE [r EXCEPT !.parser = DelAt(@, i)]

\* the return of a call that ended with truncate(), which flushes
Truncated(r, disk, commit) == Commit(r, Flush(r, disk), commit)

\* remove_section after the seek(0), which flushes, and the read
SectionRemoved(rd, disk, section) ==
  IF rd.exc # "" THEN Outcome(rd.r, Flush(rd.r, disk), rd.exc, PyNone)
  ELSE Truncated(Rewritten(WithoutSection(rd.r, SecIndex(rd.r.parser, section))),
                 disk, FALSE)

\* remove_section(section)
remove_section(r, disk, section) ==
  IF r.st # "open" THEN Outcome(r, disk, "AttributeError", PyNone)
  ELSE SectionRemoved(Reread(r), disk, section)

\* parser.remove_option in the section at i
WithoutOption(r, i, option) ==
  IF OptIndex(r.parser[i].opts, option) = 0 THEN r
  ELSE [r EXCEPT !.parser[i].opts = DelAt(@, OptIndex(r.parser[i].opts, option))]

\* remove_option after the seek(0), which flushes, and the read; the parser
\* takes the section DEFAULT for its defaults, which are empty
OptionRemoved(rd, disk, key, sec, commit) ==
  IF rd.exc # "" THEN Outcome(rd.r, Flush(rd.r, disk), rd.exc, PyNone)
  ELSE IF sec = <<"D", "E", "F", "A", "U", "L", "T">>
  THEN Truncated(Rewritten(rd.r), disk, commit)
  ELSE IF SecIndex(rd.r.parser, sec) = 0
  THEN Outcome(rd.r, Flush(rd.r, disk), "NoSectionError", PyNone)
  ELSE Truncated(Rewritten(WithoutOption(rd.r, SecIndex(rd.r.parser, sec),
                                         optionxform(rd.r.cs, key))),
                 disk, commit)

\* remove_option(key, section, commit)
remove_option(r, disk, key, section, commit) ==
  IF r.st # "open" THEN Outcome(r, disk, "AttributeError", PyNone)
  ELSE OptionRemoved(Reread(r), disk, key, SectionOr(section), commit)

\* close after the save, if any: the close of an open file flushes it
Closed(sv) ==
  IF sv.exc # "" THEN sv
  ELSE Outcome([sv.r EXCEPT !.st = "closed", !.buf = <<>>, !.file = <<>>],
               Flush(sv.r, sv.disk), "", PyNone)

\* close(save)
close(r, disk, dosave) ==
  IF r.st # "open" THEN Outcome(r, disk, "AttributeError", PyNone)
  ELSE Closed(Commit(r, disk, dosave))

\* one step of a loop of writes: "section" is a bare _add_section call, "set"
\* a set call, "raise" a value.keys() on a value that is no dict
RaiseStep == [kind |-> "raise", key |-> <<>>, value |-> PyNone, section |-> <<>>]
SectionStep(section) ==
  [kind |-> "section", key |-> <<>>, value |-> PyNone, section |-> section]
SetStep(key, value, section) ==
  [kind |-> "set", key |-> key, value |-> value, section |-> section]

\* a bare _add_section call, a being its outcome
SectionAdded(r, disk, a) ==
  Outcome([r EXCEPT !.parser = a.parser], disk, a.exc, PyNone)

Step(r, disk, s, commit) ==
  IF s.kind = "raise" THEN Outcome(r, disk, "AttributeError", PyNone)
  ELSE IF s.kind = "section"
  THEN SectionAdded(r, disk, add_section(r.parser, s.section))
  ELSE set(r, disk, s.key, s.value, s.section, commit)

\* the loops of _create_config, load_json and load_env: the steps in order,
\* left at the first exception with what the earlier steps did
RECURSIVE Batch(_, _, _, _)
RECURSIVE BatchOn(_, _, _)
Batch(r, disk, steps, commit) ==
  IF steps = <<>> THEN Outcome(r, disk, "", PyNone)
  ELSE BatchOn(Step(r, disk, Head(steps), commit), Tail(steps), commit)
BatchOn(o, steps, commit) ==
  IF o.exc # "" THEN o ELSE Batch(o.r, o.disk, steps, commit)

\* the first exception of a sequence of outcomes, "" when there is none
FirstExc(outs) ==
  LET bad == {i \in 1..Len(outs) : outs[i].exc # ""}
  IN IF bad = {} THEN "" ELSE outs[Min(bad)].exc

\* the first exception of a sequence of sequences of outcomes
FirstExcOfAll(outs) == FirstExc([i \in 1..Len(outs) |-> [exc |-> FirstExc(outs[i])]])

\* parser.get of every option of every section
GetAll(p, cs) ==
  [i \in 1..Len(p) |->
    [j \in 1..Len(p[i].opts) |-> ParserGet(p, cs, p[i].name, p[i].opts[j].k)]]

\* the OrderedDict load_defaults returns, got being the values of the options
Configs(p, got) ==
  IF FirstExcOfAll(got) # "" THEN [exc |-> FirstExcOfAll(got), val |-> <<>>]
  ELSE [exc |-> "",
        val |-> [i \in 1..Len(p) |->
                  [key |-> p[i].name, isdict |-> TRUE, str |-> <<>>,
                   opts |-> [j \in 1..Len(p[i].opts) |->
                              [k |-> p[i].opts[j].k, v |-> got[i][j].val]]]]]

\* load_defaults after parser.read, rd being its outcome
Loaded(rd, cs) ==
  IF rd.exc # "" THEN [exc |-> rd.exc, val |-> <<>>]
  ELSE Configs(rd.parser, GetAll(rd.parser, cs))

\* load_defaults: [exc, val]; val has one entry per section of the file,
\* each option with its interpolated value
load_defaults(disk, filename, cs) ==
  Loaded(IF disk[filename].exists
         THEN ParserRead(<<>>, disk[filename].text, cs)
         ELSE [exc |-> "", broken |-> FALSE, parser |-> <<>>], cs)

\* OrderedDict.update: a key already there keeps its place and takes the new
\* value, a new key goes to the end
RECURSIVE Update(_, _)
Update(d, new) ==
  IF new = <<>> THEN d
  ELSE LET e == Head(new)
           at == {i \in 1..Len(d) : d[i].key = e.key}
       IN Update(IF at = {} THEN Append(d, e) ELSE [d EXCEPT ![Min(at)] = e],
                 Tail(new))

\* the calls _create_config makes for one entry of __defaults
EntrySteps(e) ==
  IF e.isdict
  THEN <<SectionStep(e.key)>> \o
       [j \in 1..Len(e.opts) |-> SetStep(e.opts[j].k, PyStr(e.opts[j].v), e.key)]
  ELSE <<SectionStep(default_section), SetStep(e.key, PyStr(e.str), default_section)>>

\* the constructor after the loop of _create_config, lp being its outcome
Created(d1, lp) ==
  IF lp.exc # "" THEN [exc |-> lp.exc, r |-> NoInstance, defaults |-> d1]
  ELSE [exc |-> "", r |-> [lp.r EXCEPT !.buf = write_config(lp.r)], defaults |-> d1]

\* _create_config once __defaults is updated to d1
create_config(r0, disk, d1) ==
  Created(d1, Batch(r0, disk, Join([i \in 1..Len(d1) |-> EntrySteps(d1[i])], <<>>),
                    FALSE))

\* the constructor after load_defaults, ld being its outcome
Defaulted(r0, disk, defaults, ld) ==
  IF ld.exc # "" THEN [exc |-> ld.exc, r |-> NoInstance, defaults |-> defaults]
  ELSE create_config(r0, disk, Update(defaults, ld.val))

\* ConfigReader(filename, case_sensitive=cs): [exc, r, defaults]; __defaults
\* belongs to the class, so the update stays when the constructor raises later
construct(disk, defaults, filename, cs) ==
  Defaulted([st |-> "open", filename |-> filename, cs |-> cs, parser |-> <<>>,
             buf |-> <<>>, broken |-> FALSE, file |-> <<>>],
            disk, defaults, load_defaults(disk, filename, cs))

\* the sections property
sections(r) == [i \in 1..Len(r.parser) |-> r.parser[i].name]

\* the values parser.items gave as they are
KeepAll(got) == [j \in 1..Len(got) |-> [exc |-> "", val |-> PyStr(got[j].val)]]
\* _evaluate of the values parser.items gave (got)
EvaluateAll(got) == [j \in 1..Len(got) |-> evaluate(PyStr(got[j].val))]

\* the OrderedDict of get_items, evs being its values
Items(opts, got, evs) ==
  IF FirstExc(got) # "" THEN [exc |-> FirstExc(got), none |-> FALSE, val |-> <<>>]
  ELSE IF FirstExc(evs) # "" THEN [exc |-> FirstExc(evs), none |-> FALSE, val |-> <<>>]
  ELSE [exc |-> "", none |-> FALSE,
        val |-> [j \in 1..Len(opts) |-> [k |-> opts[j].k, v |-> evs[j].val]]]

\* get_items of the section at i, got being what parser.items gave
ItemsOf(r, i, got) == Items(r.parser[i].opts, got, EvaluateAll(got))

\* get_items(section): [exc, none, val]; none says that None is returned
get_items(r, section) ==
  IF SecIndex(r.parser, section) = 0 THEN [exc |-> "", none |-> TRUE, val |-> <<>>]
  ELSE ItemsOf(r, SecIndex(r.parser, section),
               GetAll(r.parser, r.cs)[SecIndex(r.parser, section)])

\* the dict of show, got being what get returned for every option
Shown(p, got) ==
  IF FirstExcOfAll(got) # "" THEN [exc |-> FirstExcOfAll(got), val |-> <<>>]
  ELSE [exc |-> "",
        val |-> [i \in 1..Len(p) |->
                  [name |-> p[i].name,
                   items |-> [j \in 1..Len(p[i].opts) |->
                               [k |-> p[i].opts[j].k, v |-> got[i][j].val]]]]]

\* show(False): [exc, val]; val has, per section, the options with the value
\* get(option, section) returns
show(r, disk) ==
  Shown(r.parser,
        [i \in 1..Len(r.parser) |->
          [j \in 1..Len(r.parser[i].opts) |->
            get(r, disk, r.parser[i].opts[j].k, r.parser[i].name, TRUE, PyNone, FALSE)]])

\* environment[k] = v on a mapping that keeps insertion order
PutEnv(env, k, v) ==
  LET at == {i \in 1..Len(env) : env[i].k = k}
  IN IF at = {} THEN Append(env, [k |-> k, v |-> v])
     ELSE [env EXCEPT ![Min(at)].v = v]

RECURSIVE PutAll(_, _)
PutAll(env, kvs) ==
  IF kvs = <<>> THEN env ELSE PutAll(PutEnv(env, Head(kvs).k, Head(kvs).v), Tail(kvs))

\* the name to_env gives the variable of an option
EnvKey(section, item, prepend) ==
  IF prepend THEN Upper(section) \o <<"_">> \o Upper(item) ELSE Upper(item)

\* to_env after show, data being its outcome
Exported(environ, prepend, data) ==
  IF data.exc # "" THEN [exc |-> data.exc, environ |-> environ]
  ELSE [exc |-> "",
        environ |->
          PutAll(environ,
                 Join([i \in 1..Len(data.val) |->
                        [j \in 1..Len(data.val[i].items) |->
                          [k |-> EnvKey(data.val[i].name, data.val[i].items[j].k, prepend),
                           v |-> Str(data.val[i].items[j].v)]]], <<>>))]

\* a to_env that an instance without its file object refuses
to_env_open(r, disk, environ, prepend) ==
  IF r.st # "open" THEN [exc |-> "AttributeError", environ |-> environ]
  ELSE Exported(environ, prepend, show(r, disk))

\* to_env(environment, prepend): [exc, environ]
to_env(r, disk, environ, prepend) == Exported(environ, prepend, show(r, disk))

\* _separate_prefix(key, prefix): the key without the last prefix + '_' in it
separate_prefix(key, prefix) ==
  LET sep == prefix \o <<"_">>
      at == {i \in 1..Len(key) : MatchAt(key, sep, i)}
  IN IF at = {} THEN key
     ELSE SubSeq(key, 1, Max(at) - 1) \o Drop(key, Max(at) + Len(sep))

\* the set calls of load_env, name being the prefix stripped, pref that in
\* upper case and mine the variables that start with it
EnvSteps(environ, name, pref, mine) ==
  IF pref # <<>>
  THEN [j \in 1..Len(mine) |->
         SetStep(separate_prefix(mine[j].k, pref), PyStr(mine[j].v), name)]
  ELSE [j \in 1..Len(environ) |-> SetStep(environ[j].k, PyStr(environ[j].v), <<>>)]

\* load_env(environment, prefix, commit)
load_env(r, disk, environ, prefix, commit) ==
  Batch(r, disk,
        EnvSteps(environ, Strip(prefix), Upper(Strip(prefix)),
                 SelectSeq(environ, LAMBDA e : StartsWith(e.k, Upper(Strip(prefix))))),
        commit)

\* the calls load_json makes for one key of the document; an entry of data is
\* [key, isdict, value, items], value being what str(value) and the type are
JsonSteps(e, section, identifier) ==
  IF StartsWith(e.key, identifier)
  THEN <<SectionStep(Tail(e.key))>> \o
       (IF e.isdict
        THEN [j \in 1..Len(e.items) |->
               SetStep(e.items[j].k, e.items[j].v, Tail(e.key))]
        ELSE <<RaiseStep>>)
  ELSE <<SectionStep(SectionOr(section)), SetStep(e.key, e.value, SectionOr(section))>>

\* load_json(filename, section, identifier) on a file whose document is data
load_json(r, disk, data, section, identifier) ==
  Batch(r, disk,
        Join([i \in 1..Len(data) |-> JsonSteps(data[i], section, identifier)], <<>>),
        FALSE)

(***************************************************************************)
(* The program: a process that constructs ConfigReader instances on paths  *)
(* of one disk and calls their methods one at a time.                      *)
(*   inst      the instances the process holds                             *)
(*   disk      the content of every path                                   *)
(*   defaults  ConfigReader.__defaults, the class attribute                *)
(*   environ   os.environ                                                  *)
(*   environment  the dict the process keeps to pass as environment        *)
(*   ret       the last call: what was called, with what, and its outcome  *)
(*   nops      the number of calls made                                    *)
(***************************************************************************)
VARIABLES inst, disk, defaults, environ, environment, ret, nops

vars == <<inst, disk, defaults, environ, environment, ret, nops>>

Call(op, i, key, section, value, eval, commit, exc, val) ==
  [op |-> op, i |-> i, key |-> key, section |-> section, value |-> value,
   eval |-> eval, commit |-> commit, exc |-> exc, val |-> val]

NoCall == Call("", 0, <<>>, <<>>, PyNone, FALSE, FALSE, "", PyNone)

\* a method can be called on an instance that was constructed; an instance
\* whose parser a failed read left with lists of lines is not followed further
Callable(i) == inst[i].st # "none" /\ ~inst[i].broken

\* the constructor returns c
Constructed(i, f, c) ==
  /\ inst' = [inst EXCEPT ![i] = c.r]
  /\ defaults' = c.defaults
  /\ ret' = Call("construct", i, <<>>, <<>>, PyStr(f), FALSE, FALSE, c.exc, PyNone)
  /\ nops' = nops + 1
  /\ UNCHANGED <<disk, environ, environment>>

Construct(i, f) ==
  /\ inst[i].st = "none"
  /\ Constructed(i, f, construct(disk, defaults, f, FALSE))

\* a method of instance i returns o
Return(i, o, op, key, section, value, eval, commit) ==
  /\ inst' = [inst EXCEPT ![i] = o.r]
  /\ disk' = o.disk
  /\ ret' = Call(op, i, key, section, value, eval, commit, o.exc, o.val)
  /\ nops' = nops + 1
  /\ UNCHANGED <<defaults, environ, environment>>

Set(i, key, value, section, commit) ==
  /\ Callable(i)
  /\ Return(i, set(inst[i], disk, key, value, section, commit),
            "set", key, section, value, FALSE, commit)

Get(i, key, section, eval, default, default_commit) ==
  /\ Callable(i)
  /\ Return(i, get(inst[i], disk, key, section, eval, default, default_commit),
            "get", key, section, default, eval, default_commit)

RemoveOption(i, key, section, commit) ==
  /\ Callable(i)
  /\ Return(i, remove_option(inst[i], disk, key, section, commit),
            "remove_option", key, section, PyNone, FALSE, commit)

RemoveSection(i, section) ==
  /\ Callable(i)
  /\ Return(i, remove_section(inst[i], disk, section),
            "remove_section", <<>>, section, PyNone, FALSE, FALSE)

Save(i) ==
  /\ Callable(i)
  /\ Return(i, save(inst[i], disk), "save", <<>>, <<>>, PyNone, FALSE, TRUE)

Close(i, dosave) ==
  /\ Callable(i)
  /\ Return(i, close(inst[i], disk, dosave), "close", <<>>, <<>>, PyNone, FALSE, dosave)

\* to_env returns o
EnvReturn(i, o, prepend) ==
  /\ environ' = o.environ
  /\ ret' = Call("to_env", i, <<>>, <<>>, PyNone, prepend, FALSE, o.exc, PyNone)
  /\ nops' = nops + 1
  /\ UNCHANGED <<inst, disk, defaults, environment>>

ToEnv(i, prepend) ==
  /\ Callable(i)
  /\ EnvReturn(i, to_env(inst[i], disk, environ, prepend), prepend)

LoadEnv(i, prefix, commit) ==
  /\ Callable(i)
  /\ Return(i, load_env(inst[i], disk, environ, prefix, commit),
            "load_env", <<>>, prefix, PyNone, FALSE, commit)

LoadJson(i, data, section) ==
  /\ Callable(i)
  /\ Return(i, load_json(inst[i], disk, data, section, <<"@">>),
            "load_json", <<>>, section, PyNone, FALSE, FALSE)

(***************************************************************************)
(* Spec: two instances on two paths; the first path may hold a file an     *)
(* earlier run of the program saved, and the environment has one variable. *)
(* The second instance is constructed after the first.                     *)
(***************************************************************************)
MaxOps == 4

Instances == {1, 2}
Paths == {<<"p">>, <<"q">>}
Values == {PyStr(<<"T", "r", "u", "e">>), PyStr(<<"1">>)}
EarlierFile == [exists |-> TRUE, text |-> <<"[", "m", "a", "i", "n", "]", "\n", "a", " ", "=", " ", "T", "r", "u", "e", "\n", "\n", "[", "s", "]", "\n", "b", " ", "=", " ", "1", "\n", "\n">>]
JsonDoc ==
  <<[key |-> <<"b">>, isdict |-> FALSE, value |-> PyInt(<<"1">>), items |-> <<>>],
    [key |-> <<"@", "t">>, isdict |-> TRUE, value |-> PyNone,
     items |-> <<[k |-> <<"c">>, v |-> PyInt(<<"2">>)]>>]>>

Init ==
  /\ inst = [i \in Instances |-> NoInstance]
  /\ disk \in {[f \in Paths |-> NoFile],
               [f \in Paths |-> IF f = <<"p">> THEN EarlierFile ELSE NoFile]}
  /\ defaults = SeedDefaults
  /\ environ = <<[k |-> <<"E">>, v |-> <<"1">>]>>
  /\ environment = <<>>
  /\ ret = NoCall
  /\ nops = 0

\* the calls the process may still make
Within(max) == nops < max

Next ==
  \E i \in Instances :
    \/ \E f \in Paths :
         Within(MaxOps) /\ (i = 1 \/ inst[1].st # "none") /\ Construct(i, f)
    \/ \E v \in Values, c \in BOOLEAN : Within(MaxOps) /\ Set(i, <<"a">>, v, <<>>, c)
    \/ \E c \in BOOLEAN :
         Within(MaxOps) /\ Get(i, <<"d">>, <<"s">>, TRUE, PyInt(<<"2">>), c)
    \/ \E c \in BOOLEAN : Within(MaxOps) /\ RemoveOption(i, <<"a">>, <<>>, c)
    \/ Within(MaxOps) /\ RemoveSection(i, default_section)
    \/ Within(MaxOps) /\ Save(i)
    \/ \E b \in BOOLEAN : Within(MaxOps) /\ Close(i, b)
    \/ \E c \in BOOLEAN : Within(MaxOps) /\ LoadEnv(i, <<>>, c)
    \/ Within(MaxOps) /\ LoadJson(i, JsonDoc, <<>>)

Spec == Init /\ [][Next]_vars

(***************************************************************************)
(* SpecValues: one instance and the values it is given.  The instance is   *)
(* constructed on a path, takes values for the key a, is asked for keys    *)
(* with and without a default, and has other keys and sections removed.    *)
(***************************************************************************)
MaxValueOps == 3

StoredValues ==
  {<<"T", "r", "u", "e">>,
   <<"5">>,
   <<"0">>,
   <<"N", "o", "n", "e">>,
   <<>>,
   <<"a", "b", "c">>,
   <<"1", ".", "5">>,
   <<"'", "a", "'">>,
   <<"{", "[", "]", ":", "1", "}">>,
   <<" ", "a">>,
   <<"%", "(", "z", "z", ")", "s">>,
   <<"%", "2", "3">>,
   <<"%", "x", "%", "%", "(">>}
GetDefaults ==
  {PyNone, PyInt(<<"2">>), PyStr(<<"2", "0">>), PyStr(<<"n", "o", "t", " ", "r", "e", "a", "l", "l", "y">>)}

NextValues ==
  \/ \E f \in Paths : Within(MaxValueOps) /\ Construct(1, f)
  \/ \E v \in StoredValues : Within(MaxValueOps) /\ Set(1, <<"a">>, PyStr(v), <<>>, FALSE)
  \/ \E s \in {<<>>, <<"s">>}, e \in BOOLEAN, d \in GetDefaults, c \in BOOLEAN :
       Within(MaxValueOps) /\ Get(1, <<"a">>, s, e, d, c)
  \/ Within(MaxValueOps) /\ RemoveOption(1, <<"b">>, <<>>, FALSE)
  \/ Within(MaxValueOps) /\ RemoveSection(1, <<"s">>)

SpecValues == Init /\ [][NextValues]_vars

(***************************************************************************)
(* SpecChain: one instance whose section main is loaded with a chain of    *)
(* keys a, b, c, ..., each but the first referring to the one before it.   *)
(***************************************************************************)
MaxChainOps == 4
MaxChain == 12

\* the value of the n-th key of a chain: "%(" the key before ")s-"
ChainValue(n) ==
  IF n = 1 THEN <<"v">> ELSE <<"%", "(", LowerAlpha[n - 1], ")", "s", "-">>

\* the JSON document {"a": "v", "b": "%(a)s-", ...} of n keys
Chain(n) ==
  [j \in 1..n |-> [key |-> <<LowerAlpha[j]>>, isdict |-> FALSE,
                   value |-> PyStr(ChainValue(j)), items |-> <<>>]]

\* short chains, and the two chains about the interpolation depth limit
ChainLengths == {1, 2, 3, MaxChain - 1, MaxChain}

NextChain ==
  \/ Within(MaxChainOps) /\ Construct(1, <<"q">>)
  \/ \E n \in ChainLengths : Within(MaxChainOps) /\ LoadJson(1, Chain(n), <<>>)
  \/ \E v \in {<<"w">>, <<"7">>} :
       Within(MaxChainOps) /\ Set(1, <<"a">>, PyStr(v), <<>>, FALSE)
  \/ \E n \in ChainLengths, e \in BOOLEAN :
       Within(MaxChainOps) /\ Get(1, <<LowerAlpha[n]>>, <<>>, e, PyNone, FALSE)
  \/ Within(MaxChainOps) /\ ToEnv(1, TRUE)

SpecChain == Init /\ [][NextChain]_vars

(***************************************************************************)
(* Properties of construction, persistence and the disk (Spec).            *)
(***************************************************************************)
\* the names of the sections a parser holds
SectionNames(parser) == {parser[i].name : i \in 1..Len(parser)}

\* the <<section, option>> pairs a parser holds
Pairs(parser) ==
  UNION {{<<parser[i].name, parser[i].opts[j].k>> : j \in 1..Len(parser[i].opts)} :
         i \in 1..Len(parser)}

\* what the file at a path holds, parsed: no section when there is no file
FileParser(file) ==
  IF file.exists THEN ParserRead(<<>>, file.text, FALSE).parser ELSE <<>>

\* sections, options and evaluated values of an instance, in order
Store(r) == [i \in 1..Len(r.parser) |->
              [name |-> r.parser[i].name, items |-> get_items(r, r.parser[i].name)]]

\* C1: right after a ConfigReader is constructed on a path, it holds exactly
\* the sections and options of the file at the path plus the option reader
\* of section main; on a missing or empty file, sections is ['main'] and
\* get_items('main') is {reader: 'configreader'}, whatever instances were
\* constructed before.
C1_FreshStore ==
  (ret.op = "construct" /\ ret.exc = "") =>
    /\ SectionNames(inst[ret.i].parser)
         = SectionNames(FileParser(disk[ret.value.v])) \cup {default_section}
    /\ Pairs(inst[ret.i].parser)
         = Pairs(FileParser(disk[ret.value.v])) \cup {<<default_section, reader>>}
    /\ disk[ret.value.v].text = <<>> =>
         /\ sections(inst[ret.i]) = <<default_section>>
         /\ get_items(inst[ret.i], default_section)
              = [exc |-> "", none |-> FALSE,
                 val |-> <<[k |-> reader, v |-> PyStr(configreader)]>>]

\* the last call wrote the file of its instance: save(), close(save=True) or
\* a set or remove_option with commit=True, returned without exception
Saved ==
  /\ ret.exc = ""
  /\ \/ ret.op = "save"
     \/ ret.op \in {"close", "set", "remove_option"} /\ ret.commit

\* C2: when an instance has just saved (save(), close(save=True) or a call
\* with commit=True) and a new instance is constructed on the same path, the
\* constructor succeeds and the new instance has the sections, options and
\* evaluated values of the instance that saved.
C2_SaveReload ==
  [][(Saved /\ ret'.op = "construct" /\ ret'.value.v = inst[ret.i].filename) =>
       (ret'.exc = "" /\ Store(inst'[ret'.i]) = Store(inst[ret.i]))]_vars

\* the calls that may be made without commit
Uncommitted ==
  {"construct", "set", "remove_option", "remove_section", "load_json", "load_env",
   "get"}

\* C3: construction and every set, remove_option, remove_section, load_json,
\* load_env or get with a default, made without commit, leave the file of
\* every path as it was, absent when it was absent; and no call of a method
\* changes what a later constructor starts from besides the disk, so another
\* instance constructed on the path does not see uncommitted options.
C3_NoCommitNoWrite ==
  [][/\ (ret'.op \in Uncommitted /\ ~ret'.commit) => disk' = disk
     /\ ret'.op # "construct" => defaults' = defaults]_vars

\* an option was set without commit on an instance whose path has no file
C3_Witness ==
  /\ ret.op = "set" /\ ~ret.commit /\ ret.exc = ""
  /\ ParserGet(inst[ret.i].parser, FALSE, default_section, ret.key).exc = ""
  /\ ~disk[inst[ret.i].filename].exists

(***************************************************************************)
(* Properties of get and set on values (SpecValues).                       *)
(***************************************************************************)
\* the section has no such key, or there is no such section
Miss(r, section, key) ==
  ParserGet(r.parser, r.cs, SectionOr(section), key).exc
    \in {"NoSectionError", "NoOptionError"}

\* get(key, section, evaluate=False) without default: [exc, val]
RawGet(r, d, key, section) ==
  [exc |-> get(r, d, key, section, FALSE, PyNone, FALSE).exc,
   val |-> get(r, d, key, section, FALSE, PyNone, FALSE).val]

\* C4: get without default of a key the section does not have, or of a
\* section that does not exist, raises MissingOptionError, with evaluate or
\* without, and leaves the store as it was.
C4_MissRaises ==
  [][(ret'.op = "get" /\ ret'.value = PyNone
        /\ Miss(inst[ret'.i], ret'.section, ret'.key)) =>
       (ret'.exc = "MissingOptionError" /\ inst' = inst /\ disk' = disk)]_vars

\* C5: get with a default d of an absent key returns d evaluated as a stored
\* value is (2 gives the int 2, '20' the int 20, 'not really' that string),
\* creates the section, a later get without default returns the same value,
\* and the disk is written only with default_commit.
C5_DefaultEvaluated ==
  [][(ret'.op = "get" /\ ret'.value # PyNone /\ ret'.eval
        /\ Miss(inst[ret'.i], ret'.section, ret'.key)) =>
       /\ ret'.exc = ""
       /\ ret'.val = evaluate(PyStr(Str(ret'.value))).val
       /\ SectionOr(ret'.section) \in SectionNames(inst'[ret'.i].parser)
       /\ get(inst'[ret'.i], disk', ret'.key, ret'.section, TRUE, PyNone, FALSE).val
            = ret'.val
       /\ ~ret'.commit => disk' = disk]_vars

\* a remove_option or remove_section that is not about the key of the set
\* the call before it made
RemoveOfOther ==
  /\ ret.op = "set" /\ ret.exc = "" /\ ret'.i = ret.i
  /\ \/ ret'.op = "remove_option"
          /\ (ret'.key # ret.key \/ SectionOr(ret'.section) # SectionOr(ret.section))
     \/ ret'.op = "remove_section" /\ ret'.section # SectionOr(ret.section)

\* C6: after set(key, value), get(key, evaluate=False) returns str(value),
\* and still does after a remove_option or remove_section of another key or
\* section.
C6_SetThenRawGet ==
  [][/\ ret'.op = "set" =>
          RawGet(inst'[ret'.i], disk', ret'.key, ret'.section)
            = [exc |-> "", val |-> PyStr(Str(ret'.value))]
     /\ RemoveOfOther =>
          RawGet(inst'[ret.i], disk', ret.key, ret.section)
            = [exc |-> "", val |-> PyStr(Str(ret.value))]]_vars

\* the value a string is the literal form of: a bool, None, an int or a
\* float; the string itself when it is none of these
TypedValue(s) ==
  IF s = PyTrue.v THEN PyTrue
  ELSE IF s = PyFalse.v THEN PyFalse
  ELSE IF s = PyNone.v THEN PyNone
  ELSE IF IsNumLit(s) THEN NumVal(s)
  ELSE PyStr(s)

\* C7: get with evaluate of an existing key returns the bool, int, float or
\* None the stored string is the literal form of, the stored string itself
\* for every other string, and never raises.
C7_EvaluateLiterals ==
  [][(ret'.op = "get" /\ ret'.eval
        /\ RawGet(inst[ret'.i], disk, ret'.key, ret'.section).exc = ""
        /\ ~Miss(inst[ret'.i], ret'.section, ret'.key)) =>
       /\ ret'.exc = ""
       /\ ret'.val
            = TypedValue(RawGet(inst[ret'.i], disk, ret'.key, ret'.section).val.v)]_vars

\* C9: no stored value has a reference that does not resolve: set of such a
\* value raises InterpolationError and stores nothing, so parser.get of a
\* stored option never fails for a missing referenced option.
C9_ReferencesResolve ==
  /\ \A i \in Instances :
       \A k \in Pairs(inst[i].parser) :
         ParserGet(inst[i].parser, inst[i].cs, k[1], k[2]).exc
           # "InterpolationMissingOptionError"
  /\ (ret.op = "set"
        /\ before_get(Str(ret.value), <<>>, FALSE).exc = "InterpolationMissingOptionError"
        /\ before_get(Str(ret.value),
                      inst[ret.i].parser[SecIndex(inst[ret.i].parser,
                                                  SectionOr(ret.section))].opts,
                      FALSE).exc = "InterpolationMissingOptionError")
       => ret.exc = "InterpolationError"

\* whether a string has a "%" that is neither doubled nor the start of "%("
RECURSIVE HasStray(_)
HasStray(s) ==
  IF s = <<>> THEN FALSE
  ELSE IF s[1] # "%" THEN HasStray(Tail(s))
  ELSE IF MatchAt(s, <<"%", "%">>, 1) \/ MatchAt(s, <<"%", "(">>, 1)
  THEN HasStray(Drop(s, 3))
  ELSE TRUE

\* C10: set of a str value with a "%" that is neither doubled nor the start
\* of "%(" does not raise, and get(key, evaluate=False) then returns the
\* value as it was passed.
C10_StrayPercent ==
  (ret.op = "set" /\ ret.value.t = "str" /\ HasStray(ret.value.v)) =>
    /\ ret.exc = ""
    /\ RawGet(inst[ret.i], disk, ret.key, ret.section)
         = [exc |-> "", val |-> ret.value]

(***************************************************************************)
(* Properties of references between values (SpecChain).                    *)
(***************************************************************************)
\* where the reference that starts s ends: the place of its ")", 0 when s
\* does not start with a reference "%(" key ")s"
RefEnd(s) ==
  IF Len(s) >= 4 /\ s[1] = "%" /\ s[2] = "(" /\ FindChar(s, ")") # 0
       /\ FindChar(s, ")") < Len(s) /\ s[FindChar(s, ")") + 1] = "s"
  THEN FindChar(s, ")") ELSE 0

\* the key the reference at the start of s names
RefKey(s) == Lower(SubSeq(s, 3, RefEnd(s) - 1))

\* s with every reference replaced by the expansion of the value of the
\* option it names, and "%%" by "%"
RECURSIVE Expanded(_, _)
Expanded(opts, s) ==
  IF s = <<>> THEN <<>>
  ELSE IF RefEnd(s) # 0
  THEN Expanded(opts, MapGet(opts, RefKey(s))) \o Expanded(opts, Drop(s, RefEnd(s) + 2))
  ELSE IF Len(s) >= 2 /\ s[1] = "%" /\ s[2] = "%"
  THEN <<"%">> \o Expanded(opts, Drop(s, 3))
  ELSE <<s[1]>> \o Expanded(opts, Tail(s))

\* how deep the references of s nest: 0 for a value without "%", else one
\* more than the deepest value it refers to
RECURSIVE Levels(_, _)
RECURSIVE Deepest(_, _)
Levels(opts, s) == IF FindChar(s, "%") = 0 THEN 0 ELSE 1 + Deepest(opts, s)
Deepest(opts, s) ==
  IF s = <<>> THEN 0
  ELSE IF RefEnd(s) # 0
  THEN Max({Levels(opts, MapGet(opts, RefKey(s))), Deepest(opts, Drop(s, RefEnd(s) + 2))})
  ELSE Deepest(opts, Tail(s))

\* the options of section main of an instance
MainOpts(r) == r.parser[SecIndex(r.parser, default_section)].opts

\* the value the environment has for a name, <<>> when it has none
EnvValue(env, name) ==
  IF \E i \in 1..Len(env) : env[i].k = name
  THEN env[CHOOSE i \in 1..Len(env) : env[i].k = name].v ELSE <<>>

\* the last call was a get of an option section main has
GotMain == ret.op = "get" /\ ~Miss(inst[ret.i], <<>>, ret.key)

\* what get returns for an option of main when every reference is replaced
Reading(r, key, eval) ==
  IF eval THEN TypedValue(Expanded(MainOpts(r), MapGet(MainOpts(r), key)))
  ELSE PyStr(Expanded(MainOpts(r), MapGet(MainOpts(r), key)))

\* no option of main nests references deeper than the parser follows them
Shallow(r) ==
  \A j \in 1..Len(MainOpts(r)) :
    Levels(MainOpts(r), MainOpts(r)[j].v) <= MAX_INTERPOLATION_DEPTH

\* C8: in a section whose values refer to each other in an acyclic chain,
\* get returns the value with every reference replaced, recursively, by the
\* current value of the key it names, and to_env exports the string of the
\* evaluated expanded value, as long as the references nest at most
\* MAX_INTERPOLATION_DEPTH deep; beyond that get and to_env raise
\* InterpolationDepthError.
C8_ChainExpanded ==
  /\ GotMain =>
       IF Levels(MainOpts(inst[ret.i]), MapGet(MainOpts(inst[ret.i]), ret.key))
            <= MAX_INTERPOLATION_DEPTH
       THEN ret.exc = "" /\ ret.val = Reading(inst[ret.i], ret.key, ret.eval)
       ELSE ret.exc = "InterpolationDepthError"
  /\ ret.op = "to_env" /\ inst[ret.i].st = "open" =>
       IF Shallow(inst[ret.i])
       THEN /\ ret.exc = ""
            /\ \A j \in 1..Len(MainOpts(inst[ret.i])) :
                 EnvValue(environ, <<"M", "A", "I", "N", "_">>
                                     \o Upper(MainOpts(inst[ret.i])[j].k))
                   = Str(Reading(inst[ret.i], MainOpts(inst[ret.i])[j].k, TRUE))
       ELSE ret.exc = "InterpolationDepthError"

\* the third key of a chain is read after the first key was set anew
C8_Witness ==
  /\ GotMain /\ ret.key = <<"c">> /\ ret.exc = ""
  /\ ~Miss(inst[ret.i], <<>>, <<"a">>)
  /\ MapGet(MainOpts(inst[ret.i]), <<"a">>) = <<"w">>
  /\ ret.val = PyStr(<<"w", "-", "-">>)

\* C8 as stated, for chains of any length: get returns the value with every
\* reference replaced and to_env exports the expanded values.
C8_AnyChain ==
  /\ GotMain => (ret.exc = "" /\ ret.val = Reading(inst[ret.i], ret.key, ret.eval))
  /\ ret.op = "to_env" /\ inst[ret.i].st = "open" =>
       /\ ret.exc = ""
       /\ \A j \in 1..Len(MainOpts(inst[ret.i])) :
            EnvValue(environ, <<"M", "A", "I", "N", "_">>
                                \o Upper(MainOpts(inst[ret.i])[j].k))
              = Str(Reading(inst[ret.i], MainOpts(inst[ret.i])[j].k, TRUE))

(***************************************************************************)
(* SpecNames: one instance and calls that name a section, the reserved     *)
(* name in three letter cases among them.                                  *)
(***************************************************************************)
MaxNameOps == 3

ReservedNames ==
  {<<"d", "e", "f", "a", "u", "l", "t">>, <<"d", "e", "F", "a", "u", "l", "t">>,
   <<"D", "E", "F", "A", "U", "L", "T">>}
NamedSections == ReservedNames \cup {<<>>, <<"s">>}

\* the document {"@t": {"c": 2}, "b": 1}: JsonDoc with the section first
SectionFirstDoc == <<JsonDoc[2], JsonDoc[1]>>

NextNames ==
  \/ Within(MaxNameOps) /\ Construct(1, <<"p">>)
  \/ \E s \in NamedSections :
       Within(MaxNameOps) /\ Set(1, <<"a">>, PyStr(<<"1">>), s, FALSE)
  \/ \E s \in NamedSections, d \in {PyNone, PyInt(<<"2">>)} :
       Within(MaxNameOps) /\ Get(1, <<"a">>, s, TRUE, d, FALSE)
  \/ \E s \in NamedSections, doc \in {JsonDoc, SectionFirstDoc} :
       Within(MaxNameOps) /\ LoadJson(1, doc, s)

SpecNames == Init /\ [][NextNames]_vars

\* C11: set, load_json and get with a default that name a section equal to
\* 'default' in any letter case raise SectionNameNotAllowed, and the store
\* has the sections, options and values it had before the call.
C11_ReservedName ==
  [][(/\ \/ ret'.op \in {"set", "load_json"}
         \/ ret'.op = "get" /\ ret'.value # PyNone
      /\ ret'.section \in ReservedNames) =>
       /\ ret'.exc = "SectionNameNotAllowed"
       /\ inst'[ret'.i].parser = inst[ret'.i].parser]_vars

(***************************************************************************)
(* SpecFiles: one instance constructed on a file an earlier run left, then *)
(* read, and keys and sections removed from it, present or not.            *)
(***************************************************************************)
MaxFileOps == 3

\* a file that gives reader another value
ReaderFile == [exists |-> TRUE, text |-> <<"[","m","a","i","n","]","\n","r","e","a","d","e","r"," ","="," ","x","\n","a"," ","="," ","1","\n","\n">>]
\* a file with an escaped percent sign before a parenthesis
EscapedFile == [exists |-> TRUE, text |-> <<"[","m","a","i","n","]","\n","a"," ","="," ","%","%","(","b",")","s","\n","b"," ","="," ","1","\n","\n">>]
Files == {EarlierFile, ReaderFile, EscapedFile}

InitFiles ==
  /\ inst = [i \in Instances |-> NoInstance]
  /\ disk \in {[f \in Paths |-> IF f = <<"p">> THEN file ELSE NoFile] : file \in Files}
  /\ defaults = SeedDefaults
  /\ environ = <<>>
  /\ environment = <<>>
  /\ ret = NoCall
  /\ nops = 0

RemovedKeys == {<<"a">>, <<"z">>}
RemovedSections == {<<>>, <<"s">>, <<"z">>}

NextFiles ==
  \/ Within(MaxFileOps) /\ Construct(1, <<"p">>)
  \/ \E k \in {<<"a">>, reader}, e \in BOOLEAN :
       Within(MaxFileOps) /\ Get(1, k, <<>>, e, PyNone, FALSE)
  \/ \E k \in RemovedKeys, s \in RemovedSections, c \in BOOLEAN :
       Within(MaxFileOps) /\ RemoveOption(1, k, s, c)
  \/ \E s \in {default_section, <<"s">>, <<"z">>} :
       Within(MaxFileOps) /\ RemoveSection(1, s)

SpecFiles == InitFiles /\ [][NextFiles]_vars

\* the evaluated value of option p[2] of section p[1] of a parser read from a file
FileValue(parser, p) == evaluate(PyStr(ParserGet(parser, FALSE, p[1], p[2]).val))

\* C12: after construction on a file that defines options, get of every
\* option of the file returns the file's value, main.reader included; reader
\* is 'configreader' only when the file's main does not define it.
C12_FileValues ==
  (ret.op = "construct" /\ ret.exc = "") =>
    /\ \A p \in Pairs(FileParser(disk[ret.value.v])) :
         get(inst[ret.i], disk, p[2], p[1], TRUE, PyNone, FALSE).val
           = FileValue(FileParser(disk[ret.value.v]), p).val
    /\ <<default_section, reader>> \notin Pairs(FileParser(disk[ret.value.v])) =>
         get(inst[ret.i], disk, reader, <<>>, FALSE, PyNone, FALSE).val
           = PyStr(configreader)

\* a store without the section S
WithoutNamed(store, S) == SelectSeq(store, LAMBDA e : e.name # S)

\* C13: after remove_section(S) on an open instance S is not in sections and
\* get_items(S) is None, and every other section has the options, in their
\* order, and the evaluated values it had; S may be 'main'.
C13_SectionRemoved ==
  [][(ret'.op = "remove_section" /\ inst[ret'.i].st = "open") =>
       /\ ret'.exc = ""
       /\ \A j \in 1..Len(sections(inst'[ret'.i])) :
            sections(inst'[ret'.i])[j] # ret'.section
       /\ get_items(inst'[ret'.i], ret'.section).none
       /\ Store(inst'[ret'.i]) = WithoutNamed(Store(inst[ret'.i]), ret'.section)]_vars

\* a store without the option K of the section S
WithoutKey(store, S, K) ==
  [i \in 1..Len(store) |->
    IF store[i].name # S THEN store[i]
    ELSE [store[i] EXCEPT !.items.val = SelectSeq(@, LAMBDA e : e.k # K)]]

\* C14: after remove_option(K, S) of an option an open instance has, get(K, S)
\* without default misses, S is still a section and every other option of
\* every section is as it was; after a remove_option with commit=True, a new
\* instance constructed on the same path has no K in S either.
C14_OptionRemoved ==
  [][/\ (/\ ret'.op = "remove_option" /\ inst[ret'.i].st = "open"
         /\ <<SectionOr(ret'.section), ret'.key>> \in Pairs(inst[ret'.i].parser)) =>
          /\ ret'.exc = ""
          /\ ParserGet(inst'[ret'.i].parser, FALSE, SectionOr(ret'.section),
                       ret'.key).exc = "NoOptionError"
          /\ Store(inst'[ret'.i])
               = WithoutKey(Store(inst[ret'.i]), SectionOr(ret'.section), ret'.key)
     /\ (/\ ret.op = "remove_option" /\ ret.commit /\ ret.exc = ""
         /\ ret'.op = "construct" /\ ret'.value.v = inst[ret.i].filename) =>
          /\ ret'.exc = ""
          /\ Miss(inst'[ret'.i], ret.section, ret.key)]_vars

\* C15: remove_option of a key its section does not have, remove_option in a
\* section that does not exist and remove_section of a section that does not
\* exist return without raising and leave sections, options and values as
\* they were; stated for an instance whose buffer holds the text of its
\* store, so that the read the removal starts with succeeds.
C15_RemoveMissing ==
  [][(/\ inst[ret'.i].st = "open"
      /\ inst[ret'.i].buf = ParserWrite(inst[ret'.i].parser)
      /\ \/ /\ ret'.op = "remove_option"
            /\ <<SectionOr(ret'.section), ret'.key>> \notin Pairs(inst[ret'.i].parser)
         \/ /\ ret'.op = "remove_section"
            /\ ret'.section \notin SectionNames(inst[ret'.i].parser)) =>
       /\ ret'.exc = ""
       /\ Store(inst'[ret'.i]) = Store(inst[ret'.i])]_vars

(***************************************************************************)
(* Properties of close (Spec).                                             *)
(***************************************************************************)
\* C16: after close() with its default argument, as __exit__ calls it, the
\* file at the instance's path exists and holds the sections, options and
\* values the instance had when it was closed.
C16_CloseFlushes ==
  [][(ret'.op = "close" /\ ~ret'.commit /\ inst[ret'.i].st = "open") =>
       /\ ret'.exc = ""
       /\ disk'[inst[ret'.i].filename].exists
       /\ FileParser(disk'[inst[ret'.i].filename]) = inst[ret'.i].parser]_vars

\* C17: every method called on an instance after its close() raises the error
\* of a closed resource (AttributeError, the file object being deleted), and
\* the failed call changes neither the instance's store nor the disk.
C17_ClosedFails ==
  [][(inst[ret'.i].st = "closed" /\ ret'.op # "construct") =>
       /\ ret'.exc = "AttributeError"
       /\ inst'[ret'.i].parser = inst[ret'.i].parser
       /\ disk' = disk]_vars

(***************************************************************************)
(* reload and set_many.  The tests call both (testconfigreader.py, lines   *)
(* 846-897) and reader.py defines neither, so they are written from the    *)
(* description of the two operations.                                      *)
(***************************************************************************)
\* the parser that holds the default seed only
SeedParser ==
  <<[name |-> default_section, opts |-> <<[k |-> reader, v |-> configreader]>>]>>

\* reload once the file is read over the seed, rd being the outcome of the
\* read: the buffer is the text of the new store
Reloaded(r, d, rd) ==
  IF rd.exc # "" THEN Outcome(r, d, rd.exc, PyNone)
  ELSE Outcome([r EXCEPT !.parser = rd.parser, !.buf = ParserWrite(rd.parser),
                         !.broken = rd.broken],
               d, "", PyNone)

\* reload(): the store is dropped and read again from the file at filename;
\* a key of the file replaces that of the seed
reload(r, d) ==
  IF r.st # "open" THEN Outcome(r, d, "AttributeError", PyNone)
  ELSE Reloaded(r, d,
                ParserRead(SeedParser,
                           IF d[r.filename].exists THEN d[r.filename].text
                           ELSE <<>>,
                           r.cs))

\* set_many(mapping, section, commit): set for every entry, in order
set_many(r, d, mapping, section, commit) ==
  Batch(r, d,
        [j \in 1..Len(mapping) |-> SetStep(mapping[j].k, mapping[j].v, section)],
        commit)

\* str(mapping) of a dict
DictVal(mapping) ==
  [t |-> "dict",
   v |-> <<"{">> \o Join([j \in 1..Len(mapping) |->
                            Repr(PyStr(mapping[j].k)) \o <<":", " ">>
                              \o Repr(mapping[j].v)], <<",", " ">>) \o <<"}">>]

Reload(i) ==
  /\ Callable(i)
  /\ Return(i, reload(inst[i], disk), "reload", <<>>, <<>>, PyNone, FALSE, FALSE)

SetMany(i, mapping, section, commit) ==
  /\ Callable(i)
  /\ Return(i, set_many(inst[i], disk, mapping, section, commit), "set_many",
            <<>>, section, DictVal(mapping), FALSE, commit)

(***************************************************************************)
(* SpecReload: an instance on a file an earlier run left is changed with   *)
(* set and set_many, saved, reloaded and closed, and a second instance is  *)
(* constructed on the same path.                                           *)
(***************************************************************************)
MaxReloadOps == 4

Mappings ==
  {<<[k |-> <<"a">>, v |-> PyStr(<<"1">>)]>>,
   <<[k |-> <<"n">>, v |-> PyStr(<<"o", "n", "e">>)], [k |-> <<"a">>, v |-> PyInt(<<"2">>)]>>}

NextReload ==
  \/ \E i \in Instances :
       Within(MaxReloadOps) /\ (i = 1 \/ inst[1].st # "none") /\ Construct(i, <<"p">>)
  \/ \E v \in Values, c \in BOOLEAN :
       Within(MaxReloadOps) /\ Set(1, <<"a">>, v, <<>>, c)
  \/ Within(MaxReloadOps) /\ RemoveSection(1, default_section)
  \/ Within(MaxReloadOps) /\ Save(1)
  \/ Within(MaxReloadOps) /\ Reload(1)
  \/ \E m \in Mappings, s \in {<<>>, <<"s">>}, c \in BOOLEAN :
       Within(MaxReloadOps) /\ SetMany(1, m, s, c)
  \/ \E b \in BOOLEAN : Within(MaxReloadOps) /\ Close(1, b)

SpecReload == InitFiles /\ [][NextReload]_vars

\* the options an instance holds that the file at its path does not define
Unsaved(r, d) == Pairs(r.parser) \ (Pairs(FileParser(d[r.filename]))
                                       \cup {<<default_section, reader>>})

\* C18: reload() leaves the store that the constructor would build from the
\* file at the instance's path as it is now; the options the instance held
\* that the file does not define are gone (get misses them), and the options
\* of the file are there with the file's values.
C18_ReloadAsConstructed ==
  [][(ret'.op = "reload" /\ inst[ret'.i].st = "open") =>
       /\ ret'.exc = construct(disk, defaults, inst[ret'.i].filename, FALSE).exc
       /\ ret'.exc = "" =>
            /\ Store(inst'[ret'.i])
                 = Store(construct(disk, defaults, inst[ret'.i].filename, FALSE).r)
            /\ \A p \in Unsaved(inst[ret'.i], disk) : Miss(inst'[ret'.i], p[1], p[2])
            /\ \A p \in Pairs(FileParser(disk[inst[ret'.i].filename])) :
                 get(inst'[ret'.i], disk, p[2], p[1], TRUE, PyNone, FALSE).val
                   = FileValue(FileParser(disk[inst[ret'.i].filename]), p).val]_vars

\* set once for each entry of a mapping, in order: the outcome of the last
\* call, or of the first that raised
RECURSIVE SetEach(_, _, _, _, _)
SetEach(r, d, mapping, section, commit) ==
  IF mapping = <<>> THEN Outcome(r, d, "", PyNone)
  ELSE IF set(r, d, Head(mapping).k, Head(mapping).v, section, commit).exc # ""
  THEN set(r, d, Head(mapping).k, Head(mapping).v, section, commit)
  ELSE SetEach(set(r, d, Head(mapping).k, Head(mapping).v, section, commit).r,
               set(r, d, Head(mapping).k, Head(mapping).v, section, commit).disk,
               Tail(mapping), section, commit)

\* a new instance on the path reads every entry of the mapping in the section
ReadsAll(c, d, mapping, section) ==
  /\ c.exc = ""
  /\ \A j \in 1..Len(mapping) :
       get(c.r, d, mapping[j].k, section, FALSE, PyNone, FALSE).val
         = PyStr(Str(mapping[j].v))

\* C19: set_many(mapping, section, commit) leaves the instance as a set call
\* for each entry in the mapping's order does, and without commit leaves the
\* disk as it was; after a close(save=True) that follows it, a new instance
\* constructed on the same path reads every entry of the mapping.
C19_SetManyAsSets ==
  [][\A m \in Mappings :
       /\ (ret'.op = "set_many" /\ ret'.value = DictVal(m) /\ inst[ret'.i].st = "open") =>
            /\ inst'[ret'.i] = SetEach(inst[ret'.i], disk, m, ret'.section, ret'.commit).r
            /\ ~ret'.commit => disk' = disk
       /\ (/\ ret.op = "set_many" /\ ret.value = DictVal(m) /\ ret.exc = ""
           /\ ret'.op = "close" /\ ret'.commit /\ ret'.exc = "") =>
            ReadsAll(construct(disk', defaults', inst[ret.i].filename, FALSE), disk',
                     m, ret.section)]_vars

(***************************************************************************)
(* search.  A threshold is the text of the number the caller passes; the   *)
(* comparisons of ratios are made on fractions, which order as the floats  *)
(* of SequenceMatcher.ratio do for texts this short.                       *)
(***************************************************************************)
\* the characters of keys, sections and values in the order of their code
\* points
CodeOrder ==
  <<"\t", "\n", " ", "!", "#", "$", "%", "&", "'", "(", ")", "*",
    "+", ",", "-", ".", "/", "0", "1", "2", "3", "4", "5", "6", "7", "8",
    "9", ":", ";", "<", "=", ">", "?", "@", "A", "B", "C", "D", "E", "F",
    "G", "H", "I", "J", "K", "L", "M", "N", "O", "P", "Q", "R", "S", "T",
    "U", "V", "W", "X", "Y", "Z", "[", "]", "^", "_", "a", "b",
    "c", "d", "e", "f", "g", "h", "i", "j", "k", "l", "m", "n", "o", "p",
    "q", "r", "s", "t", "u", "v", "w", "x", "y", "z", "{", "|", "}", "~">>
Ord(c) == CHOOSE n \in 1..Len(CodeOrder) : CodeOrder[n] = c

\* s < t for two str
RECURSIVE StrLess(_, _)
StrLess(s, t) ==
  IF t = <<>> THEN FALSE
  ELSE IF s = <<>> THEN TRUE
  ELSE IF s[1] # t[1] THEN Ord(s[1]) < Ord(t[1])
  ELSE StrLess(Tail(s), Tail(t))

\* the number an unsigned run of digits denotes
RECURSIVE IntOf(_)
IntOf(s) ==
  IF s = <<>> THEN 0
  ELSE 10 * IntOf(SubSeq(s, 1, Len(s) - 1)) + (Ord(s[Len(s)]) - Ord("0"))

\* a number of at most two decimals, in hundredths
Hundredths(s) ==
  LET m == Magnitude(s)
      dot == FindChar(m, ".")
      h == IF dot = 0 THEN 100 * IntOf(m)
           ELSE 100 * IntOf(SubSeq(m, 1, dot - 1))
                  + IntOf(SubSeq(Drop(m, dot + 1) \o <<"0", "0">>, 1, 2))
  IN IF s[1] = "-" THEN 0 - h ELSE h

\* the length of the block a[i..] = b[j..] within a[..ahi] and b[..bhi]
RECURSIVE RunLen(_, _, _, _, _, _)
RunLen(a, b, i, j, ahi, bhi) ==
  IF i > ahi \/ j > bhi THEN 0
  ELSE IF a[i] # b[j] THEN 0
  ELSE 1 + RunLen(a, b, i + 1, j + 1, ahi, bhi)

\* SequenceMatcher.find_longest_match on a[alo..ahi] and b[blo..bhi]: a
\* longest block, the one that starts earliest in a and then earliest in b
LongestAt(a, b, alo, ahi, blo, bhi, k) ==
  IF k = 0 THEN [i |-> alo, j |-> blo, k |-> 0]
  ELSE LET i == Min({x \in alo..ahi :
                       \E y \in blo..bhi : RunLen(a, b, x, y, ahi, bhi) = k})
       IN [i |-> i,
           j |-> Min({y \in blo..bhi : RunLen(a, b, i, y, ahi, bhi) = k}),
           k |-> k]
find_longest_match(a, b, alo, ahi, blo, bhi) ==
  LongestAt(a, b, alo, ahi, blo, bhi,
            Max({0} \cup {RunLen(a, b, x, y, ahi, bhi) :
                            x \in alo..ahi, y \in blo..bhi}))

\* the sum of the sizes of get_matching_blocks: the longest block, then the
\* same to its left and to its right
RECURSIVE Matched(_, _, _, _, _, _)
MatchedAround(a, b, alo, ahi, blo, bhi, m) ==
  IF m.k = 0 THEN 0
  ELSE m.k + Matched(a, b, alo, m.i - 1, blo, m.j - 1)
           + Matched(a, b, m.i + m.k, ahi, m.j + m.k, bhi)
Matched(a, b, alo, ahi, blo, bhi) ==
  MatchedAround(a, b, alo, ahi, blo, bhi, find_longest_match(a, b, alo, ahi, blo, bhi))

\* SequenceMatcher(None, a, b).ratio() as a fraction
ratio(a, b) ==
  IF Len(a) + Len(b) = 0 THEN [num |-> 1, den |-> 1]
  ELSE [num |-> 2 * Matched(a, b, 1, Len(a), 1, Len(b)), den |-> Len(a) + Len(b)]

\* m < n for two tuples (ratio, key, found, section)
MatchLess(m, n) ==
  \/ m.ratio.num * n.ratio.den < n.ratio.num * m.ratio.den
  \/ /\ m.ratio.num * n.ratio.den = n.ratio.num * m.ratio.den
     /\ \/ StrLess(m.key, n.key)
        \/ m.key = n.key /\ StrLess(m.found, n.found)
        \/ m.key = n.key /\ m.found = n.found /\ StrLess(m.section, n.section)

\* str of the tuple search returns for a match
TupleVal(m) ==
  [t |-> "tuple",
   v |-> <<"(">> \o Repr(PyStr(m.key)) \o <<",", " ">> \o Repr(PyStr(m.found))
           \o <<",", " ">> \o Repr(PyStr(m.section)) \o <<")">>]

\* the first of the matches sorted without reverse
least_match(matches) ==
  IF matches = <<>> THEN [t |-> "tuple", v |-> <<"(", ")">>]
  ELSE TupleVal(CHOOSE m \in {matches[n] : n \in 1..Len(matches)} :
                  \A n \in 1..Len(matches) : ~MatchLess(matches[n], m))

\* tuple(sorted(matches, reverse=True)[0][1:]), () without matches
best_match(matches) ==
  IF matches = <<>> THEN [t |-> "tuple", v |-> <<"(", ")">>]
  ELSE TupleVal(CHOOSE m \in {matches[n] : n \in 1..Len(matches)} :
                  \A n \in 1..Len(matches) : ~MatchLess(m, matches[n]))

\* the options in the reverse of the order of the loops
OptionsBackwards(parser) ==
  Join([i \in 1..Len(parser) |->
          [j \in 1..Len(parser[Len(parser) + 1 - i].opts) |->
             [section |-> parser[Len(parser) + 1 - i].name,
              key |-> parser[Len(parser) + 1 - i].opts[
                        Len(parser[Len(parser) + 1 - i].opts) + 1 - j].k]]], <<>>)

\* the <<section, key>> pairs in the order the loops of search visit them
Options(parser) ==
  Join([i \in 1..Len(parser) |->
          [j \in 1..Len(parser[i].opts) |->
             [section |-> parser[i].name, key |-> parser[i].opts[j].k]]], <<>>)

\* a check of the lower end only
InRangeBelow(t) == 0 <= t

\* 0 <= threshold <= 1
InRange(t) == 0 <= t /\ t <= 100

\* the loops of search over the options left (todo), g being what get gave
\* for the first of them and t the threshold in hundredths
RECURSIVE Scan(_, _, _, _, _, _, _, _)
Scanned(r, d, value, case_sensitive, exact_match, t, todo, matches, g) ==
  IF g.exc # "" THEN Outcome(r, d, g.exc, PyNone)
  ELSE IF exact_match
  THEN IF \/ case_sensitive /\ value = g.val.v
          \/ ~case_sensitive /\ Lower(value) = Lower(g.val.v)
       THEN Outcome(r, d, "",
                    TupleVal([key |-> Head(todo).key, found |-> g.val.v,
                              section |-> Head(todo).section]))
       ELSE Scan(r, d, value, case_sensitive, exact_match, t, Tail(todo), matches)
  ELSE Scan(r, d, value, case_sensitive, exact_match, t, Tail(todo),
            IF ratio(g.val.v, value).num * 100 >= t * ratio(g.val.v, value).den
            THEN Append(matches, [ratio |-> ratio(g.val.v, value),
                                  key |-> Head(todo).key, found |-> g.val.v,
                                  section |-> Head(todo).section])
            ELSE matches)
Scan(r, d, value, case_sensitive, exact_match, t, todo, matches) ==
  IF todo = <<>> THEN Outcome(r, d, "", best_match(matches))
  ELSE Scanned(r, d, value, case_sensitive, exact_match, t, todo, matches,
               get(r, d, Head(todo).key, Head(todo).section, FALSE, PyNone, FALSE))

\* search(value, case_sensitive, exact_match, threshold)
search(r, d, value, case_sensitive, exact_match, threshold) ==
  IF ~InRange(Hundredths(threshold)) THEN Outcome(r, d, "ThresholdError", PyNone)
  ELSE Scan(r, d, value, case_sensitive, exact_match, Hundredths(threshold),
            Options(r.parser), <<>>)

\* the call record of a search has the threshold as its key, exact_match as
\* eval and case_sensitive as commit
Search(i, value, case_sensitive, exact_match, threshold) ==
  /\ Callable(i)
  /\ Return(i, search(inst[i], disk, value, case_sensitive, exact_match, threshold),
            "search", threshold, <<>>, PyStr(value), exact_match, case_sensitive)

(***************************************************************************)
(* SpecSearch: an instance on a path without a file, or with a file an     *)
(* earlier run left, is searched with every setting of exact_match and     *)
(* case_sensitive and thresholds inside and outside of [0, 1], before and  *)
(* after values are set and after it is closed.                            *)
(***************************************************************************)
MaxSearchOps == 3

\* a file with the same value under two keys and a longer one in a section
SearchFile == [exists |-> TRUE, text |-> <<"[","m","a","i","n","]","\n","a"," ","="," ","o","n","e","\n","b"," ","="," ","o","n","e","\n","\n","[","s","]","\n","c"," ","="," ","t","o","n","e","\n","\n">>]
\* the options set before a search: key and value
SearchStored == {<<<<"a">>, <<"O", "n", "e">>>>, <<<<"c">>, <<"t", "o", "n", "e">>>>}
SearchValues == {<<"o", "n", "e">>, <<"O", "N", "E">>, <<"t", "o", "n", "e">>}
Thresholds ==
  {<<"-", "0", ".", "1">>, <<"0">>, <<"0", ".", "8">>, <<"1">>, <<"1", ".", "5">>}

InitSearch ==
  /\ inst = [i \in Instances |-> NoInstance]
  /\ disk \in {[f \in Paths |-> NoFile],
               [f \in Paths |-> IF f = <<"p">> THEN SearchFile ELSE NoFile]}
  /\ defaults = SeedDefaults
  /\ environ = <<>>
  /\ environment = <<>>
  /\ ret = NoCall
  /\ nops = 0

NextSearch ==
  \/ Within(MaxSearchOps) /\ Construct(1, <<"p">>)
  \/ \E kv \in SearchStored :
       Within(MaxSearchOps) /\ Set(1, kv[1], PyStr(kv[2]), <<>>, FALSE)
  \/ \E v \in SearchValues, c \in BOOLEAN, e \in BOOLEAN, t \in Thresholds :
       Within(MaxSearchOps) /\ Search(1, v, c, e, t)
  \/ Within(MaxSearchOps) /\ Close(1, FALSE)

SpecSearch == InitSearch /\ [][NextSearch]_vars

\* C20: search with a threshold below 0 or above 1 raises ThresholdError,
\* whatever the value searched, the store and the settings of exact_match and
\* case_sensitive, and changes neither the instances nor the disk nor the
\* environment; the thresholds 0 and 1 are not refused.
C20_ThresholdChecked ==
  [][ret'.op = "search" =>
       /\ (Hundredths(ret'.key) < 0 \/ Hundredths(ret'.key) > 100) =>
            /\ ret'.exc = "ThresholdError"
            /\ inst' = inst /\ disk' = disk /\ environ' = environ
            /\ defaults' = defaults
       /\ Hundredths(ret'.key) \in {0, 100} => ret'.exc # "ThresholdError"]_vars

\* a search with a threshold above 1 was refused on a store that holds the
\* value searched
C20_Witness ==
  /\ ret.op = "search" /\ Hundredths(ret.key) > 100 /\ ret.exc = "ThresholdError"
  /\ \E p \in Pairs(inst[ret.i].parser) :
       ParserGet(inst[ret.i].parser, FALSE, p[1], p[2]).val = ret.value.v

\* whether search in exact mode takes the value found for the value searched
ExactMatch(value, found, case_sensitive) ==
  IF case_sensitive THEN value = found ELSE Lower(value) = Lower(found)

\* the places <<i, j>>, option j of section i, of the options of r whose
\* value get(evaluate=False) equals the value searched
ExactHits(r, value, case_sensitive) ==
  {p \in UNION {{<<i, j>> : j \in 1..Len(r.parser[i].opts)} : i \in 1..Len(r.parser)} :
     ExactMatch(value,
                ParserGet(r.parser, r.cs, r.parser[p[1]].name,
                          r.parser[p[1]].opts[p[2]].k).val,
                case_sensitive)}

\* the first of a set of places: the earliest section, then the earliest
\* option of it
FirstPlace(places) ==
  CHOOSE p \in places :
    \A q \in places : p[1] < q[1] \/ (p[1] = q[1] /\ p[2] <= q[2])

\* (key, value, section) of the option at place p, as search returns it
HitAt(r, p) ==
  [t |-> "tuple",
   v |-> <<"(", "'">> \o r.parser[p[1]].opts[p[2]].k \o <<"'", ",", " ", "'">>
           \o ParserGet(r.parser, r.cs, r.parser[p[1]].name,
                        r.parser[p[1]].opts[p[2]].k).val
           \o <<"'", ",", " ", "'">> \o r.parser[p[1]].name \o <<"'", ")">>]

Places(r) ==
  UNION {{<<i, j>> : j \in 1..Len(r.parser[i].opts)} : i \in 1..Len(r.parser)}

\* key, value under get(evaluate=False) and section of the option at place p
KeyAt(r, p) == r.parser[p[1]].opts[p[2]].k
FoundAt(r, p) == ParserGet(r.parser, r.cs, r.parser[p[1]].name, KeyAt(r, p)).val
SectionAt(r, p) == r.parser[p[1]].name

\* the ratio of the value of every option to the value searched
Ratios(r, value) == [p \in Places(r) |-> ratio(FoundAt(r, p), value)]

\* the places whose ratio (rs) is t hundredths at least, and those of them
\* with the highest ratio
Candidates(r, rs, t) == {p \in Places(r) : rs[p].num * 100 >= t * rs[p].den}
Top(r, rs, t) ==
  {p \in Candidates(r, rs, t) :
     \A q \in Candidates(r, rs, t) : rs[q].num * rs[p].den <= rs[p].num * rs[q].den}

\* the option at p comes before that at q by key, then value, then section
SortsBefore(r, p, q) ==
  \/ StrLess(KeyAt(r, p), KeyAt(r, q))
  \/ /\ KeyAt(r, p) = KeyAt(r, q)
     /\ \/ StrLess(FoundAt(r, p), FoundAt(r, q))
        \/ /\ FoundAt(r, p) = FoundAt(r, q)
           /\ StrLess(SectionAt(r, p), SectionAt(r, q))

\* what a fuzzy search has to return when last says which of the options
\* with the highest ratio is taken
FuzzyResult(r, value, t, last) ==
  LET rs == Ratios(r, value)
      top == Top(r, rs, t)
  IN IF top = {} THEN [t |-> "tuple", v |-> <<"(", ")">>]
     ELSE HitAt(r, CHOOSE p \in top :
                     \A q \in top \ {p} :
                       IF last THEN SortsBefore(r, q, p) ELSE SortsBefore(r, p, q))

MaxCaseOps == 4

CaseFile == [exists |-> TRUE, text |-> <<"[", "m", "a", "i", "n", "]", "\n", "K", " ", "=", " ", "5", "\n", "\n">>]
CaseKeys == {<<"K">>, <<"k">>}
CaseValues == {PyStr(<<"1">>), PyStr(<<"o", "n">>)}
CaseSections == {<<>>, <<"s">>}

InitCase ==
  /\ inst = [i \in Instances |-> NoInstance]
  /\ disk \in {[f \in Paths |-> NoFile],
               [f \in Paths |-> IF f = <<"p">> THEN CaseFile ELSE NoFile]}
  /\ defaults = SeedDefaults
  /\ environ = <<[k |-> <<"K">>, v |-> <<"7">>]>>
  /\ environment = <<>>
  /\ ret = NoCall
  /\ nops = 0

\* ConfigReader(f, case_sensitive=cs)
ConstructCase(i, f, cs) ==
  /\ inst[i].st = "none"
  /\ Constructed(i, f, construct(disk, defaults, f, cs))

\* what get_items returned as a value: None or the OrderedDict
ItemsVal(o) == IF o.none THEN PyNone ELSE DictVal(o.val)

GetItems(i, section) ==
  /\ Callable(i)
  /\ Return(i, Outcome(inst[i], disk, get_items(inst[i], section).exc,
                       ItemsVal(get_items(inst[i], section))),
            "get_items", <<>>, section, PyNone, TRUE, FALSE)

\* the dict of show as a value
ShowVal(val) ==
  [t |-> "dict",
   v |-> <<"{">> \o Join([n \in 1..Len(val) |->
                            Repr(PyStr(val[n].name)) \o <<":", " ">>
                              \o DictVal(val[n].items).v], <<",", " ">>) \o <<"}">>]

\* show(output=False)
Show(i) ==
  /\ Callable(i)
  /\ Return(i, Outcome(inst[i], disk, show(inst[i], disk).exc,
                       ShowVal(show(inst[i], disk).val)),
            "show", <<>>, <<>>, PyNone, TRUE, FALSE)

NextCase ==
  \/ \E c \in BOOLEAN : Within(MaxCaseOps) /\ ConstructCase(1, <<"p">>, c)
  \/ \E k \in CaseKeys, v \in CaseValues, s \in CaseSections :
       Within(MaxCaseOps) /\ Set(1, k, v, s, FALSE)
  \/ \E k \in CaseKeys : Within(MaxCaseOps) /\ Get(1, k, <<>>, TRUE, PyNone, FALSE)
  \/ \E k \in CaseKeys : Within(MaxCaseOps) /\ RemoveOption(1, k, <<>>, FALSE)
  \/ Within(MaxCaseOps) /\ RemoveSection(1, <<"s">>)
  \/ Within(MaxCaseOps) /\ LoadEnv(1, <<>>, FALSE)
  \/ \E s \in {default_section, <<"s">>} : Within(MaxCaseOps) /\ GetItems(1, s)
  \/ Within(MaxCaseOps) /\ Show(1)

SpecCase == InitCase /\ [][NextCase]_vars

\* the options of a section of an instance, none when the section is missing
OptsOf(r, section) ==
  IF \E n \in 1..Len(r.parser) : r.parser[n].name = section
  THEN r.parser[CHOOSE n \in 1..Len(r.parser) : r.parser[n].name = section].opts
  ELSE <<>>

\* the two names address one option in an instance with this case handling
SameName(cs, k1, k2) == IF cs THEN k1 = k2 ELSE Lower(k1) = Lower(k2)

\* the values an instance holds under a name in a section
Held(r, section, key) ==
  {OptsOf(r, section)[j].v :
     j \in {n \in 1..Len(OptsOf(r, section)) :
              SameName(r.cs, OptsOf(r, section)[n].k, key)}}

\* the names of the options of a section
NamesOf(r, section) == {OptsOf(r, section)[j].k : j \in 1..Len(OptsOf(r, section))}

\* C23: the case handling of option names is fixed at construction.  An
\* instance keeps its case_sensitive for life.  Without it, every option it
\* holds, whether set, read from the file or loaded from the environment, has
\* a lower-case name, and set, get and remove_option take a name in any case
\* for the same option.  With it, set stores the name as given and leaves an
\* option whose name differs in case alone, get and remove_option address
\* the exact name only, and get_items lists the names as they were given.
C23_CaseFixed ==
  [][/\ \A i \in Instances :
          /\ inst[i].st # "none" => inst'[i].cs = inst[i].cs
          /\ (inst'[i].st # "none" /\ ~inst'[i].cs) =>
               \A n \in 1..Len(inst'[i].parser) :
                 \A j \in 1..Len(inst'[i].parser[n].opts) :
                   inst'[i].parser[n].opts[j].k = Lower(inst'[i].parser[n].opts[j].k)
     /\ (ret'.op = "set" /\ ret'.exc = "") =>
          /\ Held(inst'[ret'.i], SectionOr(ret'.section), ret'.key) = {ret'.value.v}
          /\ (IF inst[ret'.i].cs THEN ret'.key ELSE Lower(ret'.key))
               \in NamesOf(inst'[ret'.i], SectionOr(ret'.section))
          /\ inst[ret'.i].cs =>
               \A k \in NamesOf(inst[ret'.i], SectionOr(ret'.section)) \ {ret'.key} :
                 Held(inst'[ret'.i], SectionOr(ret'.section), k)
                   = Held(inst[ret'.i], SectionOr(ret'.section), k)
     /\ (ret'.op = "get" /\ ret'.exc = "" /\ ret'.value = PyNone) =>
          IF Held(inst[ret'.i], SectionOr(ret'.section), ret'.key) = {}
          THEN ret'.val = PyNone
          ELSE \E v \in Held(inst[ret'.i], SectionOr(ret'.section), ret'.key) :
                 ret'.val = evaluate(PyStr(v)).val
     /\ (ret'.op = "remove_option" /\ ret'.exc = "") =>
          /\ Held(inst'[ret'.i], SectionOr(ret'.section), ret'.key) = {}
          /\ inst[ret'.i].cs =>
               \A k \in NamesOf(inst[ret'.i], SectionOr(ret'.section)) \ {ret'.key} :
                 Held(inst'[ret'.i], SectionOr(ret'.section), k)
                   = Held(inst[ret'.i], SectionOr(ret'.section), k)
     /\ (ret'.op = "get_items" /\ ret'.exc = "" /\ inst[ret'.i].cs
           /\ OptsOf(inst[ret'.i], ret'.section) # <<>>) =>
          ret'.val = DictVal([j \in 1..Len(OptsOf(inst[ret'.i], ret'.section)) |->
                               [k |-> OptsOf(inst[ret'.i], ret'.section)[j].k,
                                v |-> evaluate(PyStr(OptsOf(inst[ret'.i],
                                                            ret'.section)[j].v)).val]])
    ]_vars

\* the case C23 is about: an instance without case_sensitive that read K from
\* its file was given k and then asked for K, which returned the value given
C23_Witness ==
  /\ ret.op = "get" /\ ret.exc = "" /\ ret.key = <<"K">> /\ ret.val = PyInt(<<"1">>)
  /\ ~inst[1].cs
  /\ disk[<<"p">>] = CaseFile
  /\ NamesOf(inst[1], default_section) = {<<"k">>, <<"r", "e", "a", "d", "e", "r">>}

\* get(key, section, evaluate=True) of every option of a section, in the
\* order the section holds them
GetEach(r, d, section) ==
  [j \in 1..Len(OptsOf(r, section)) |->
    get(r, d, OptsOf(r, section)[j].k, section, TRUE, PyNone, FALSE)]

\* the mapping of the options of a section to what get returns for them
GetMapping(r, d, section) ==
  DictVal([j \in 1..Len(OptsOf(r, section)) |->
            [k |-> OptsOf(r, section)[j].k, v |-> GetEach(r, d, section)[j].val]])

\* C24: get_items(section) returns None exactly when the instance has no
\* section of that name; otherwise, when every get of the section returns,
\* it returns the options of the section in the order they were inserted,
\* each with the value get(key, section, evaluate=True) returns.  show
\* returns, for every section in order, the mapping get_items returns.
C24_ItemsAsGet ==
  [][/\ (ret'.op = "get_items" /\ ret'.exc = "") =>
          /\ ret'.val = PyNone <=>
               \A n \in 1..Len(inst[ret'.i].parser) :
                 inst[ret'.i].parser[n].name # ret'.section
          /\ ret'.val # PyNone =>
               ret'.val = GetMapping(inst[ret'.i], disk, ret'.section)
     /\ (ret'.op = "get_items"
           /\ \A j \in 1..Len(OptsOf(inst[ret'.i], ret'.section)) :
                GetEach(inst[ret'.i], disk, ret'.section)[j].exc = "") =>
          ret'.exc = ""
     /\ (ret'.op = "show" /\ ret'.exc = "") =>
          ret'.val.v =
            <<"{">> \o Join([n \in 1..Len(inst[ret'.i].parser) |->
                              Repr(PyStr(inst[ret'.i].parser[n].name)) \o <<":", " ">>
                                \o ItemsVal(get_items(inst[ret'.i],
                                                      inst[ret'.i].parser[n].name)).v],
                            <<",", " ">>) \o <<"}">>
    ]_vars

\* the case C24 is about: get_items returned the three options of main, one
\* of them read from the file and one set, with their evaluated values
C24_Witness ==
  /\ ret.op = "get_items" /\ ret.exc = "" /\ ret.section = default_section
  /\ Len(OptsOf(inst[1], default_section)) = 3
  /\ ret.val = GetMapping(inst[1], disk, default_section)
  /\ \E j \in 1..3 : GetEach(inst[1], disk, default_section)[j].val = PyInt(<<"5">>)
  /\ \E j \in 1..3 : GetEach(inst[1], disk, default_section)[j].val = PyStr(<<"o", "n">>)

(***************************************************************************)
(* SpecEnv: one instance and the environments it exports to and loads      *)
(* from.  The process keeps a dict, empty or not, that it passes as the    *)
(* environment argument of to_env and load_env; os.environ holds one       *)
(* variable of its own.                                                    *)
(***************************************************************************)
MaxEnvOps == 4

EnvFile == [exists |-> TRUE, text |-> <<"[", "s", "]", "\n", "b", " ", "=", " ", "0", "\n", "\n">>]
EnvValues == {PyStr(<<"0">>), PyStr(<<"N", "o", "n", "e">>)}
OsEnviron == <<[k |-> <<"S", "_", "Z">>, v |-> <<"4">>]>>
Environments ==
  {<<>>,
   <<[k |-> <<"X">>, v |-> <<"1">>]>>,
   <<[k |-> <<"S", "_", "A", "S", "_", "B">>, v |-> <<"2">>],
     [k |-> <<"S", "X">>, v |-> <<"3">>]>>}

InitEnv ==
  /\ inst = [i \in Instances |-> NoInstance]
  /\ disk \in {[f \in Paths |-> NoFile],
               [f \in Paths |-> IF f = <<"p">> THEN EnvFile ELSE NoFile]}
  /\ defaults = SeedDefaults
  /\ environ = OsEnviron
  /\ environment \in Environments
  /\ ret = NoCall
  /\ nops = 0

\* environment or os.environ: an empty dict is false
InEffect(given, osenv) == IF given = <<>> THEN osenv ELSE given

\* a dict of strings as a value
EnvVal(env) == DictVal([j \in 1..Len(env) |-> [k |-> env[j].k, v |-> PyStr(env[j].v)]])

\* to_env(given, prepend) once the environment in effect is written (e):
\* [exc, environ, environment]
ExportedInto(given, osenv, e) ==
  [exc |-> e.exc,
   environ |-> IF given = <<>> THEN e.environ ELSE osenv,
   environment |-> IF given = <<>> THEN given ELSE e.environ]

\* to_env(environment, prepend) returns o; the call is recorded with the
\* dict that was passed
EnvReturnInto(i, o, prepend) ==
  /\ environ' = o.environ
  /\ environment' = o.environment
  /\ ret' = Call("to_env", i, <<>>, <<>>, EnvVal(environment), prepend, FALSE, o.exc,
                 PyNone)
  /\ nops' = nops + 1
  /\ UNCHANGED <<inst, disk, defaults>>

ToEnvInto(i, prepend) ==
  /\ Callable(i)
  /\ EnvReturnInto(i, ExportedInto(environment, environ,
                                   to_env(inst[i], disk, InEffect(environment, environ),
                                          prepend)),
                   prepend)

\* load_env(environment, prefix, commit)
LoadEnvFrom(i, prefix, commit) ==
  /\ Callable(i)
  /\ Return(i, load_env(inst[i], disk, InEffect(environment, environ), prefix, commit),
            "load_env", <<>>, prefix, EnvVal(environment), FALSE, commit)

NextEnv ==
  \/ \E c \in BOOLEAN : Within(MaxEnvOps) /\ ConstructCase(1, <<"p">>, c)
  \/ \E v \in EnvValues, s \in CaseSections :
       Within(MaxEnvOps) /\ Set(1, <<"b">>, v, s, FALSE)
  \/ \E b \in BOOLEAN : Within(MaxEnvOps) /\ ToEnvInto(1, b)
  \/ Within(MaxEnvOps) /\ ToEnv(1, TRUE)
  \/ \E s \in CaseSections : Within(MaxEnvOps) /\ LoadEnvFrom(1, s, FALSE)
  \/ Within(MaxEnvOps) /\ LoadEnv(1, <<>>, FALSE)
  \/ Within(MaxEnvOps) /\ RemoveSection(1, <<"s">>)

SpecEnv == InitEnv /\ [][NextEnv]_vars

\* the names a dict has and the value it has for a name
EnvNames(env) == {env[j].k : j \in 1..Len(env)}
EnvAt(env, name) == env[CHOOSE j \in 1..Len(env) : env[j].k = name].v

\* the places of the options of an instance whose variable is name, and the
\* text of what get returns for the option at a place
ExportedAs(r, name, prepend) ==
  {p \in Places(r) :
     name = (IF prepend THEN Upper(SectionAt(r, p)) \o <<"_">> ELSE <<>>)
              \o Upper(KeyAt(r, p))}
GetText(r, d, p) == get(r, d, KeyAt(r, p), SectionAt(r, p), TRUE, PyNone, FALSE).val.v

\* after to_env(E, prepend) has made F of E, every variable of an option has
\* the text of what get returns for it (for the last of the options that
\* share the variable)
ExportsAll(r, d, E, F, prepend) ==
  /\ \A p \in Places(r) :
       \E name \in EnvNames(F) :
         /\ p \in ExportedAs(r, name, prepend)
         /\ \E q \in ExportedAs(r, name, prepend) :
              /\ EnvAt(F, name) = GetText(r, d, q)
              /\ \A o \in ExportedAs(r, name, prepend) :
                   o[1] < q[1] \/ (o[1] = q[1] /\ o[2] <= q[2])
  /\ \A name \in EnvNames(F) :
       \/ ExportedAs(r, name, prepend) # {}
       \/ name \in EnvNames(E) /\ EnvAt(F, name) = EnvAt(E, name)
  /\ EnvNames(E) \subseteq EnvNames(F)

\* C25: to_env(E, prepend) with a dict E gives E, for every option K of every
\* section S, the variable upper(S)_upper(K), or upper(K) without prepend,
\* with the text of what get(K, S) returns; no other variable is created and
\* those E had for other names keep their values.
C25_Exports ==
  [][(ret'.op = "to_env" /\ ret'.exc = "" /\ ret'.value # PyNone) =>
       ExportsAll(inst[ret'.i], disk, environment, environment', ret'.eval)]_vars

\* C26: a call of to_env that is passed a dict, empty or not, leaves
\* os.environ as it was, and a call of load_env that is passed a dict leaves
\* the instance as loading from that dict alone does; a call that is passed
\* no dict works on os.environ and leaves the dict of the process alone.
C26_OwnMapping ==
  [][/\ (ret'.op = "to_env" /\ ret'.value # PyNone) => environ' = environ
     /\ (ret'.op = "load_env" /\ ret'.value # PyNone) =>
          inst'[ret'.i]
            = load_env(inst[ret'.i], disk, environment, ret'.section, ret'.commit).r
     /\ (ret'.op = "to_env" /\ ret'.value = PyNone) =>
          /\ environment' = environment
          /\ environ' = to_env(inst[ret'.i], disk, environ, ret'.eval).environ
     /\ (ret'.op = "load_env" /\ ret'.value = PyNone) =>
          inst'[ret'.i]
            = load_env(inst[ret'.i], disk, environ, ret'.section, ret'.commit).r
    ]_vars

\* a key of the environment without the prefix and the underscore it begins
\* with
WithoutLeading(key, pref) ==
  IF StartsWith(key, pref \o <<"_">>) THEN Drop(key, Len(pref) + 2) ELSE key

\* the entries of a dict whose key starts with the prefix
Prefixed(env, pref) == {j \in 1..Len(env) : StartsWith(env[j].k, pref)}

\* C27: load_env(E, prefix=P) with a dict E that is not empty and a prefix P
\* that is not empty stores every entry of E whose key starts with upper(P)
\* in section P, under the key without its leading upper(P)_, stores no
\* other option and leaves the other sections alone; with an empty prefix
\* every entry of E is stored in main.
C27_LeadingPrefix ==
  [][(ret'.op = "load_env" /\ ret'.exc = "" /\ environment # <<>>
        /\ ret'.value # PyNone) =>
       IF ret'.section # <<>>
       THEN /\ \A j \in Prefixed(environment, Upper(ret'.section)) :
                 \E v \in Held(inst'[ret'.i], ret'.section,
                               WithoutLeading(environment[j].k, Upper(ret'.section))) :
                   \E n \in Prefixed(environment, Upper(ret'.section)) :
                     v = environment[n].v
            /\ \A k \in NamesOf(inst'[ret'.i], ret'.section) :
                 \/ k \in NamesOf(inst[ret'.i], ret'.section)
                      /\ Held(inst'[ret'.i], ret'.section, k)
                           = Held(inst[ret'.i], ret'.section, k)
                 \/ \E j \in Prefixed(environment, Upper(ret'.section)) :
                      SameName(inst[ret'.i].cs, k,
                               WithoutLeading(environment[j].k, Upper(ret'.section)))
            /\ \A n \in 1..Len(inst[ret'.i].parser) :
                 inst[ret'.i].parser[n].name # ret'.section =>
                   OptsOf(inst'[ret'.i], inst[ret'.i].parser[n].name)
                     = inst[ret'.i].parser[n].opts
       ELSE \A j \in 1..Len(environment) :
              Held(inst'[ret'.i], default_section, environment[j].k)
                = {environment[j].v}]_vars

\* to_env(E), remove_section(S) and load_env(E, prefix=S) called one after
\* the other on instance r with the dict E of the process: the outcome of
\* the last call, with the first exception of the three
RoundTrip(r, d, E, osenv, S) ==
  LET e == ExportedInto(E, osenv, to_env(r, d, InEffect(E, osenv), TRUE))
      rm == remove_section(r, d, S)
      ld == load_env(rm.r, rm.disk, InEffect(e.environment, e.environ), S, FALSE)
  IN IF e.exc # "" THEN Outcome(r, d, e.exc, PyNone)
     ELSE IF rm.exc # "" THEN rm
     ELSE ld

\* what get(key, section, evaluate=True) returns for every option of a section
Evaluated28(r, d, S) ==
  {<<OptsOf(r, S)[j].k, get(r, d, OptsOf(r, S)[j].k, S, TRUE, PyNone, FALSE).val>> :
     j \in 1..Len(OptsOf(r, S))}

\* C28: for an instance without case_sensitive and any section S it holds,
\* when the dict E of the process has no entry that starts with upper(S),
\* to_env(E), remove_section(S) and load_env(E, prefix=S) return and leave
\* section S with as many options as it had, under the same names and with
\* the same evaluated values.
C28_RoundTrip ==
  \A i \in Instances :
    (inst[i].st = "open" /\ ~inst[i].broken /\ ~inst[i].cs) =>
      \A n \in 1..Len(inst[i].parser) :
        Prefixed(environment, Upper(inst[i].parser[n].name)) = {} =>
          /\ RoundTrip(inst[i], disk, environment, environ, inst[i].parser[n].name).exc = ""
          /\ Len(OptsOf(RoundTrip(inst[i], disk, environment, environ,
                                  inst[i].parser[n].name).r, inst[i].parser[n].name))
               = Len(inst[i].parser[n].opts)
          /\ Evaluated28(RoundTrip(inst[i], disk, environment, environ,
                                   inst[i].parser[n].name).r, disk, inst[i].parser[n].name)
               = Evaluated28(inst[i], disk, inst[i].parser[n].name)

(***************************************************************************)
(* SpecJson: one instance that loads JSON documents whose section keys are *)
(* marked with one or with two characters, under either identifier, and is *)
(* then asked for what the documents hold.                                 *)
(***************************************************************************)
MaxJsonOps == 3

Identifiers == {<<"@">>, <<"@", "@">>}
JsonDocs ==
  {<<[key |-> <<"a">>, isdict |-> FALSE, value |-> PyInt(<<"1">>), items |-> <<>>],
     [key |-> <<"@", "g">>, isdict |-> TRUE, value |-> PyNone,
      items |-> <<[k |-> <<"b">>, v |-> PyInt(<<"2">>)]>>]>>,
   <<[key |-> <<"a">>, isdict |-> FALSE, value |-> PyTrue, items |-> <<>>],
     [key |-> <<"@", "@", "g">>, isdict |-> TRUE, value |-> PyNone,
      items |-> <<[k |-> <<"b">>, v |-> PyInt(<<"2">>)]>>]>>}

\* a document as a value
JsonVal(data) ==
  [t |-> "dict",
   v |-> <<"{">> \o Join([n \in 1..Len(data) |->
                            Repr(PyStr(data[n].key)) \o <<":", " ">>
                              \o (IF data[n].isdict THEN DictVal(data[n].items).v
                                  ELSE Repr(data[n].value))], <<",", " ">>) \o <<"}">>]

\* load_json(filename, section, identifier) on a file that holds data
LoadJsonWith(i, data, section, identifier) ==
  /\ Callable(i)
  /\ Return(i, load_json(inst[i], disk, data, section, identifier),
            "load_json", identifier, section, JsonVal(data), FALSE, FALSE)

NextJson ==
  \/ \E f \in Paths : Within(MaxJsonOps) /\ Construct(1, f)
  \/ \E data \in JsonDocs, s \in {<<>>, <<"j">>}, m \in Identifiers :
       Within(MaxJsonOps) /\ LoadJsonWith(1, data, s, m)
  \/ \E k \in {<<"a">>, <<"b">>}, s \in {<<>>, <<"j">>, <<"g">>} :
       Within(MaxJsonOps) /\ Get(1, k, s, TRUE, PyNone, FALSE)
  \/ Within(MaxJsonOps) /\ RemoveSection(1, <<"g">>)

SpecJson == Init /\ [][NextJson]_vars

\* C29: after load_json(file, section=S, identifier=M) has returned, every
\* top-level key of the document that does not start with M is an option of
\* S, or of main without S, that get returns with the value and the type the
\* document has, and every key that starts with M names, without the whole
\* of M, a section in which get returns every entry of the key's object.
C29_MarkerRemoved ==
  [][\A data \in JsonDocs :
       (ret'.op = "load_json" /\ ret'.exc = "" /\ ret'.value = JsonVal(data)) =>
         \A n \in 1..Len(data) :
           IF StartsWith(data[n].key, ret'.key)
           THEN \A j \in 1..Len(data[n].items) :
                  get(inst'[ret'.i], disk', data[n].items[j].k,
                      Drop(data[n].key, Len(ret'.key) + 1), TRUE, PyNone, FALSE).val
                    = data[n].items[j].v
           ELSE get(inst'[ret'.i], disk', data[n].key, SectionOr(ret'.section), TRUE,
                    PyNone, FALSE).val
                  = data[n].value]_vars

(***************************************************************************)
(* Construction on a file object.  A file object is [t, mode, name,        *)
(* readable]: t is the name of its type, mode and name are what an open    *)
(* file has (an object of another type has no mode, and no name when name  *)
(* is empty) and readable says that read() returns.                        *)
(***************************************************************************)
NoStream == [t |-> "NoneType", mode |-> <<>>, name |-> <<>>, readable |-> TRUE]
StringIO == [t |-> "StringIO", mode |-> <<>>, name |-> <<>>, readable |-> TRUE]
\* what open(name, mode) gives for reading and for writing
Readable(mode) == \E n \in 1..Len(mode) : mode[n] \in {"r", "+"}
Writable(mode) == \E n \in 1..Len(mode) : mode[n] \in {"w", "a", "x", "+"}
OpenFile(name, mode) ==
  [t |-> "TextIOWrapper", mode |-> mode, name |-> name, readable |-> Readable(mode)]
Other(name, readable) ==
  [t |-> "object", mode |-> <<>>, name |-> name, readable |-> readable]

\* _check_file_object: [exc, filename], filename being __filename afterwards
check_file_object(filename, stream) ==
  IF stream.t \in {"NoneType", "StringIO"} THEN [exc |-> "", filename |-> filename]
  ELSE IF stream.t # "TextIOWrapper" /\ ~stream.readable
  THEN [exc |-> "ModeError", filename |-> filename]
  ELSE IF stream.t = "TextIOWrapper" /\ stream.mode # <<"w", "+">>
  THEN [exc |-> "ModeError", filename |-> filename]
  ELSE IF stream.name = <<>> THEN [exc |-> "AttributeError", filename |-> filename]
  ELSE [exc |-> "", filename |-> stream.name]

\* ConfigReader(filename, file_object=stream) after _check_file_object, chk
\* being its outcome
Checked(d, dflts, chk, cs) ==
  IF chk.exc # "" THEN [exc |-> chk.exc, r |-> NoInstance, defaults |-> dflts]
  ELSE construct(d, dflts, chk.filename, cs)

\* the instance keeps the open file it was given as __file_object
Backed(c, stream) ==
  IF c.exc = "" /\ stream.t = "TextIOWrapper" THEN [c EXCEPT !.r.file = stream.name]
  ELSE c

construct_on(d, dflts, filename, stream, cs) ==
  Backed(Checked(d, dflts, check_file_object(filename, stream), cs), stream)

\* the disk once the process has opened the file it passes: the modes w and
\* w+ leave an empty file
Opened(d, stream) ==
  IF stream.t = "TextIOWrapper" /\ stream.mode[1] = "w"
  THEN [d EXCEPT ![stream.name] = [exists |-> TRUE, text |-> <<>>]]
  ELSE d

\* the disk after the constructor: every set of _create_config writes the
\* text of the parser to the file object and the seek(0) of the write after
\* it flushes that text, so an open file holds the text of the last set
Flushed(d, stream, c) ==
  IF c.exc = "" /\ stream.t = "TextIOWrapper"
  THEN [d EXCEPT ![stream.name] = [exists |-> TRUE, text |-> c.r.buf]]
  ELSE d

\* the constructor returns c; the call is recorded with the name and the
\* mode of the file object, whether one was passed and whether it reads
ConstructedOn(i, filename, stream, c) ==
  /\ inst' = [inst EXCEPT ![i] = c.r]
  /\ defaults' = c.defaults
  /\ disk' = Flushed(Opened(disk, stream), stream, c)
  /\ ret' = Call("construct", i, stream.name, stream.mode, PyStr(filename),
                 stream.t # "NoneType", stream.readable, c.exc,
                 [t |-> stream.t, v |-> stream.name])
  /\ nops' = nops + 1
  /\ UNCHANGED <<environ, environment>>

\* ConfigReader(filename, file_object=stream); a file the process opened for
\* reading was there
ConstructOn(i, filename, stream) ==
  /\ inst[i].st = "none"
  /\ (stream.t = "TextIOWrapper" /\ stream.mode[1] = "r") => disk[stream.name].exists
  /\ ConstructedOn(i, filename, stream,
                   construct_on(Opened(disk, stream), defaults, filename, stream, FALSE))

(***************************************************************************)
(* SpecStream: two instances constructed with or without a file object,    *)
(* a StringIO, a file opened in one of four modes or another object, and   *)
(* asked for what they hold.                                               *)
(***************************************************************************)
MaxStreamOps == 3

Modes == {<<"w">>, <<"w", "+">>, <<"r", "+">>, <<"r">>}
Streams ==
  {NoStream, StringIO} \cup {OpenFile(<<"p">>, m) : m \in Modes}
    \cup {OpenFile(<<"q">>, <<"w", "+">>)}
    \cup {Other(<<"q">>, TRUE), Other(<<>>, TRUE), Other(<<"q">>, FALSE)}

NextStream ==
  \E i \in Instances :
    \/ \E f \in Paths, s \in Streams :
         Within(MaxStreamOps) /\ (i = 1 \/ inst[1].st # "none") /\ ConstructOn(i, f, s)
    \/ Within(MaxStreamOps) /\ Get(i, <<"a">>, <<>>, TRUE, PyNone, FALSE)
    \/ Within(MaxStreamOps) /\ GetItems(i, default_section)

SpecStream == Init /\ [][NextStream]_vars

\* C30: a constructor that is passed a StringIO or an open file returns
\* when what it is passed can be read and written and raises ModeError when
\* it cannot; when it returns and was passed an open file, filename is the
\* path of that file whatever the filename argument was.
C30_StreamChecked ==
  [][(ret'.op = "construct" /\ ret'.val.t \in {"StringIO", "TextIOWrapper"}) =>
       /\ (ret'.val.t = "StringIO"
             \/ (Readable(ret'.section) /\ Writable(ret'.section))) => ret'.exc = ""
       /\ (ret'.val.t = "TextIOWrapper"
             /\ ~(Readable(ret'.section) /\ Writable(ret'.section))) =>
            ret'.exc = "ModeError"
       /\ (ret'.exc = "" /\ ret'.val.t = "TextIOWrapper") =>
            inst'[ret'.i].filename = ret'.key]_vars

(***************************************************************************)
(* File names.  A path is a sequence of characters with "/" between its    *)
(* components; the process runs in the directory cwd and Dirs are the      *)
(* directories there are.                                                  *)
(***************************************************************************)
cwd == <<"/", "c">>
Dirs == {<<"/">>, <<"/", "c">>, <<"/", "c", "/", "s">>}
settings_ini == <<"s", "e", "t", "t", "i", "n", "g", "s", ".", "i", "n", "i">>

\* os.path.isabs, os.path.isdir
isabs(path) == path # <<>> /\ path[1] = "/"
isdir(path) == path \in Dirs

\* the place of the last "/" of a path, 0 when it has none
RECURSIVE LastSlash(_, _)
LastSlash(path, n) ==
  IF n = 0 THEN 0 ELSE IF path[n] = "/" THEN n ELSE LastSlash(path, n - 1)

\* head.rstrip('/')
RECURSIVE RStripSlash(_)
RStripSlash(head) ==
  IF head # <<>> /\ head[Len(head)] = "/" THEN RStripSlash(SubSeq(head, 1, Len(head) - 1))
  ELSE head

\* os.path.dirname, os.path.basename and os.path.join of two paths
dirname(path) ==
  IF RStripSlash(SubSeq(path, 1, LastSlash(path, Len(path)))) = <<>>
  THEN SubSeq(path, 1, LastSlash(path, Len(path)))
  ELSE RStripSlash(SubSeq(path, 1, LastSlash(path, Len(path))))
basename(path) == Drop(path, LastSlash(path, Len(path)) + 1)
join(a, b) ==
  IF isabs(b) THEN b
  ELSE IF a = <<>> \/ a[Len(a)] = "/" THEN a \o b
  ELSE a \o <<"/">> \o b

\* a _set_filename that keeps the directories of a relative path
set_filename_joined(value) ==
  IF isabs(value)
  THEN IF ~isdir(dirname(value)) THEN [exc |-> "FileNotFoundError", filename |-> value]
       ELSE [exc |-> "", filename |-> value]
  ELSE [exc |-> "", filename |-> join(cwd, value)]

\* _set_filename: [exc, filename]
set_filename(value) ==
  IF isabs(value)
  THEN IF ~isdir(dirname(value)) THEN [exc |-> "FileNotFoundError", filename |-> value]
       ELSE [exc |-> "", filename |-> value]
  ELSE [exc |-> "", filename |-> join(cwd, basename(value))]

\* a constructor that goes on with a file name it could not set
named_any(d, dflts, fn, stream, cs) == construct_on(d, dflts, fn.filename, stream, cs)

\* ConfigReader(filename, file_object=stream): _set_filename comes first, fn
\* being its outcome
named(d, dflts, fn, stream, cs) ==
  IF fn.exc # "" THEN [exc |-> fn.exc, r |-> NoInstance, defaults |-> dflts]
  ELSE construct_on(d, dflts, fn.filename, stream, cs)

ConstructAt(i, target, stream) ==
  /\ inst[i].st = "none"
  /\ ConstructedOn(i, target, stream,
                   named(Opened(disk, stream), defaults, set_filename(target), stream,
                         FALSE))

\* _get_new_object: the content of the open file goes to a new StringIO, the
\* file is closed and removed
get_new_object(r, d) ==
  Outcome([r EXCEPT !.file = <<>>], [d EXCEPT ![r.file] = NoFile], "", PyNone)

\* a setter that leaves the open file where it is
Renamed(r, d, fn) ==
  IF fn.exc # "" THEN Outcome(r, d, fn.exc, PyNone)
  ELSE Outcome([r EXCEPT !.filename = fn.filename], d, "", PyNone)

\* the setter of filename after _set_filename, fn being its outcome: only an
\* open file has a mode, and the StringIO that replaces it has no name
Named(r, d, fn) ==
  IF fn.exc # "" THEN Outcome(r, d, fn.exc, PyNone)
  ELSE IF r.file = <<>> THEN Outcome([r EXCEPT !.filename = fn.filename], d, "", PyNone)
  ELSE get_new_object([r EXCEPT !.filename = fn.filename], d)

\* instance.filename = value; the call is recorded with the open file the
\* instance had
SetFilename(i, value) ==
  /\ Callable(i)
  /\ Return(i, Named(inst[i], disk, set_filename(value)),
            "filename", inst[i].file, <<>>, PyStr(value), FALSE, FALSE)

(***************************************************************************)
(* SpecPaths: two instances constructed on a target path, with or without  *)
(* a file the process opened, that are given values and other file names   *)
(* and are saved and closed.  The process has a file open once at a time.  *)
(***************************************************************************)
MaxPathOps == 4

c_x == <<"/", "c", "/", "x">>
Targets ==
  {settings_ini, <<"x">>, <<"s", "/", "x">>, c_x, <<"/", "x">>, <<"/", "n", "/", "x">>}
PathFiles ==
  {join(cwd, settings_ini), c_x, <<"/", "x">>, <<"/", "n", "/", "x">>,
   <<"/", "c", "/", "s", "/", "x">>, <<"/", "c", "/", "y">>}
PathStreams == {NoStream, OpenFile(<<"/", "c", "/", "y">>, <<"w", "+">>)}
PathValues == {PyStr(<<"N", "o", "n", "e">>), PyStr(<<"1">>)}

InitPaths ==
  /\ inst = [i \in Instances |-> NoInstance]
  /\ disk \in {[f \in PathFiles |-> NoFile],
               [f \in PathFiles |-> IF f = c_x THEN EarlierFile ELSE NoFile]}
  /\ defaults = SeedDefaults
  /\ environ = <<>>
  /\ environment = <<>>
  /\ ret = NoCall
  /\ nops = 0

NextPaths ==
  \E i \in Instances :
    \/ \E t \in Targets, s \in PathStreams :
         /\ Within(MaxPathOps) /\ (i = 1 \/ inst[1].st # "none")
         /\ \A j \in Instances : s.name = <<>> \/ inst[j].file # s.name
         /\ ConstructAt(i, t, s)
    \/ \E t \in Targets : Within(MaxPathOps) /\ SetFilename(i, t)
    \/ \E v \in PathValues : Within(MaxPathOps) /\ Set(i, <<"a">>, v, <<>>, FALSE)
    \/ Within(MaxPathOps) /\ Save(i)
    \/ Within(MaxPathOps) /\ Close(i, FALSE)

SpecPaths == InitPaths /\ [][NextPaths]_vars

\* an absolute path whose parent directory is not there
NoParent(path) == isabs(path) /\ dirname(path) \notin Dirs

\* C31: a constructor or an assignment to filename that is given an
\* absolute path whose parent directory does not exist raises
\* FileNotFoundError and creates no file (the file the caller opened and
\* passed is the caller's); after the failed assignment the instance, its
\* filename and its content, and the disk are as before.
C31_NoDirectory ==
  [][(ret'.op \in {"construct", "filename"} /\ NoParent(ret'.value.v)) =>
       /\ ret'.exc = "FileNotFoundError"
       /\ \A f \in DOMAIN disk :
            disk'[f].exists => (disk[f].exists \/ (ret'.op = "construct" /\ f = ret'.key))
       /\ ret'.op = "construct" => inst'[ret'.i].st = "none"
       /\ ret'.op = "filename" => (inst'[ret'.i] = inst[ret'.i] /\ disk' = disk)]_vars

\* an instance on an open file with a value set was assigned such a path
C31_Witness ==
  /\ ret.op = "filename" /\ NoParent(ret.value.v) /\ ret.exc = "FileNotFoundError"
  /\ inst[ret.i].file # <<>>
  /\ \E n \in 1..Len(inst[ret.i].parser) :
       OptIndex(inst[ret.i].parser[n].opts, <<"a">>) # 0

\* what a path has after its last "/"
LastComponent(path) ==
  LET n == CHOOSE n \in 0..Len(path) :
             /\ n = 0 \/ path[n] = "/"
             /\ \A m \in (n + 1)..Len(path) : path[m] # "/"
  IN  SubSeq(path, n + 1, Len(path))

\* a constructor without an open file, or an assignment to filename, returned
NamedBy(call) ==
  /\ call.exc = ""
  /\ \/ call.op = "filename"
     \/ call.op = "construct" /\ call.val.t = "NoneType"

C38_Renamed ==
  [][(ret'.op = "filename" /\ ret'.exc = "") =>
       IF inst[ret'.i].file # <<>>
       THEN /\ inst'[ret'.i].file = <<>>
            /\ disk' = [disk EXCEPT ![inst[ret'.i].file] = NoFile]
            /\ inst'[ret'.i].buf = inst[ret'.i].buf
            /\ save(inst'[ret'.i], disk').disk[inst'[ret'.i].filename]
                 = [exists |-> TRUE, text |-> inst[ret'.i].buf]
       ELSE /\ inst' = [inst EXCEPT ![ret'.i].filename = inst'[ret'.i].filename]
            /\ disk' = disk]_vars

\* an instance on an open file, whose content is longer than the text of its
\* parser, was assigned another path
C38_Witness ==
  /\ ret.op = "filename" /\ ret.exc = "" /\ ret.key # <<>>
  /\ inst[ret.i].filename # ret.key
  /\ inst[ret.i].file = <<>>
  /\ ~disk[ret.key].exists
  /\ Len(inst[ret.i].buf) > Len(ParserWrite(inst[ret.i].parser))

\* another instance is bound to the path of instance i
Shared(i) ==
  \E j \in Instances \ {i} : inst[j].st # "none" /\ inst[j].filename = inst[i].filename

\* C33: when two instances are bound to one path, a save() that returns
\* leaves in the file of the path exactly the serialized store of the
\* instance that saved, so what only the other instance saved is no longer
\* there; and a set or a save of one instance leaves the other instance as
\* it was.
C33_LastSaveWins ==
  [][/\ (ret'.op = "save" /\ ret'.exc = "" /\ Shared(ret'.i)) =>
          disk'[inst'[ret'.i].filename]
            = [exists |-> TRUE, text |-> ParserWrite(inst'[ret'.i].parser)]
     /\ ret'.op \in {"set", "save"} =>
          \A j \in Instances \ {ret'.i} : inst'[j] = inst[j]]_vars

(***************************************************************************)
(* to_json: json.dumps(show(False), indent=4).  The values of show are     *)
(* what _evaluate returns; strings, numbers, booleans and None are         *)
(* rendered, the text of a container is passed as it is.                   *)
(***************************************************************************)
dquote == "\""
backslash == "\\"

\* a str as a JSON string: the quote and the backslash are escaped
json_str(s) ==
  <<dquote>>
    \o Replace(Replace(s, <<backslash>>, <<backslash, backslash>>),
               <<dquote>>, <<backslash, dquote>>)
    \o <<dquote>>

json_value(value) ==
  IF value.t = "str" THEN json_str(value.v)
  ELSE IF value = PyTrue THEN <<"t", "r", "u", "e">>
  ELSE IF value = PyFalse THEN <<"f", "a", "l", "s", "e">>
  ELSE IF value = PyNone THEN <<"n", "u", "l", "l">>
  ELSE value.v

Spaces(n) == [j \in 1..n |-> " "]

\* the dict of a section at indent level 1
json_items(items) ==
  IF items = <<>> THEN <<"{", "}">>
  ELSE <<"{", "\n">>
         \o Join([j \in 1..Len(items) |->
                   Spaces(8) \o json_str(items[j].k) \o <<":", " ">>
                     \o json_value(items[j].v)], <<",", "\n">>)
         \o <<"\n">> \o Spaces(4) \o <<"}">>

\* json.dumps(config, indent=4)
json_dumps(config) ==
  IF config = <<>> THEN <<"{", "}">>
  ELSE <<"{", "\n">>
         \o Join([n \in 1..Len(config) |->
                   Spaces(4) \o json_str(config[n].name) \o <<":", " ">>
                     \o json_items(config[n].items)], <<",", "\n">>)
         \o <<"\n", "}">>

\* to_json() after show, shown being its outcome
Dumped(r, d, shown) ==
  Outcome(r, d, shown.exc,
          IF shown.exc = "" THEN PyStr(json_dumps(shown.val)) ELSE PyNone)

\* to_json(): the JSON text is returned
to_json(r, d) == Dumped(r, d, show(r, d))

ToJson(i) ==
  /\ Callable(i)
  /\ Return(i, to_json(inst[i], disk), "to_json", <<>>, <<>>, PyNone, FALSE, FALSE)

(***************************************************************************)
(* SpecReads: two instances, on a path or on a file the process opened,    *)
(* that are given values and closed, and are read in every way there is.   *)
(***************************************************************************)
MaxReadOps == 4

ReadStream == OpenFile(<<"q">>, <<"w", "+">>)

NextReads ==
  \E i \in Instances :
    \/ \E f \in Paths :
         Within(MaxReadOps) /\ (i = 1 \/ inst[1].st # "none") /\ Construct(i, f)
    \/ /\ Within(MaxReadOps) /\ i = 2 /\ inst[1].st # "none"
       /\ ConstructOn(i, <<"p">>, ReadStream)
    \/ \E v \in Values, c \in BOOLEAN : Within(MaxReadOps) /\ Set(i, <<"a">>, v, <<>>, c)
    \/ Within(MaxReadOps) /\ Close(i, FALSE)
    \/ \E k \in {<<"a">>, <<"d">>}, d \in {PyNone, PyInt(<<"2">>)} :
         Within(MaxReadOps) /\ Get(i, k, <<>>, TRUE, d, FALSE)
    \/ \E s \in {default_section, <<"s">>} : Within(MaxReadOps) /\ GetItems(i, s)
    \/ \E e \in BOOLEAN :
         Within(MaxReadOps) /\ Search(i, <<"1">>, FALSE, e, <<"0", ".", "5">>)
    \/ Within(MaxReadOps) /\ Show(i)
    \/ Within(MaxReadOps) /\ ToJson(i)
    \/ \E b \in BOOLEAN : Within(MaxReadOps) /\ ToEnv(i, b)

SpecReads == Init /\ [][NextReads]_vars

\* the calls that only read
Reads == {"get_items", "search", "show", "to_json", "to_env"}

\* the option of the call is in the section of the call
Existing(call, r) ==
  \E n \in 1..Len(r.parser) :
    /\ r.parser[n].name = SectionOr(call.section)
    /\ \E j \in 1..Len(r.parser[n].opts) :
         r.parser[n].opts[j].k = optionxform(r.cs, call.key)

C35_BufferIsStore ==
  [][(ret'.op \in {"set", "remove_option", "remove_section"} /\ ret'.exc = "") =>
       /\ inst'[ret'.i].buf = ParserWrite(inst'[ret'.i].parser)
       /\ Reread(inst'[ret'.i]).exc = ""
       /\ Reread(inst'[ret'.i]).r.parser = inst'[ret'.i].parser]_vars

(***************************************************************************)
(* SpecRaise: one instance that is given values the parser takes and a     *)
(* value with a reference that does not end, in its default section, in    *)
(* another section and in a section of the reserved name, before and after *)
(* it is closed.                                                           *)
(***************************************************************************)
MaxRaiseOps == 4

RaiseValues == {<<"1">>, <<"%", "(", "n", "u", "m">>}
RaiseSections == {<<>>, <<"s">>, <<"D", "E", "F", "A", "U", "L", "T">>}

NextRaise ==
  \/ Within(MaxRaiseOps) /\ Construct(1, <<"p">>)
  \/ \E v \in RaiseValues, s \in RaiseSections :
       Within(MaxRaiseOps) /\ Set(1, <<"a">>, PyStr(v), s, FALSE)
  \/ \E s \in RaiseSections : Within(MaxRaiseOps) /\ Get(1, <<"a">>, s, FALSE, PyNone, FALSE)
  \/ Within(MaxRaiseOps) /\ Close(1, FALSE)

SpecRaise == Init /\ [][NextRaise]_vars

\* C36: a set that raises leaves the parser of the instance, with its
\* sections, options and values, as it was before the call, and a get of
\* the key returns what it returned before.
C36_RaiseChangesNothing ==
  [][(ret'.op = "set" /\ ret'.exc # "") =>
       /\ inst'[ret'.i].parser = inst[ret'.i].parser
       /\ get(inst'[ret'.i], disk', ret'.key, ret'.section, FALSE, PyNone, FALSE).val
            = get(inst[ret'.i], disk, ret'.key, ret'.section, FALSE, PyNone, FALSE).val]_vars

\* the options before and after a set of key K in their section: the ones
\* there were keep their place, all but K keep their value, and K is the
\* only one that can be new
OnlyChanged(before, after, K) ==
  /\ Len(after) \in {Len(before), Len(before) + 1}
  /\ \A j \in 1..Len(before) :
       /\ after[j].k = before[j].k
       /\ before[j].k # K => after[j] = before[j]
  /\ Len(after) > Len(before) =>
       (after[Len(after)].k = K /\ \A j \in 1..Len(before) : before[j].k # K)

\* C37: a set of key K in section S leaves every other section and every
\* other option of S with its value and in its place, a key that was
\* there keeps its place, a section or a key that was not there comes last,
\* and the same set made again leaves the parser as it is.
C37_OnlyThatOption ==
  [][ret'.op = "set" =>
       LET before == inst[ret'.i].parser
           after == inst'[ret'.i].parser
           S == SectionOr(ret'.section)
           K == optionxform(inst[ret'.i].cs, ret'.key)
       IN  /\ Len(after) \in {Len(before), Len(before) + 1}
           /\ \A n \in 1..Len(before) :
                /\ after[n].name = before[n].name
                /\ before[n].name # S => after[n] = before[n]
                /\ before[n].name = S => OnlyChanged(before[n].opts, after[n].opts, K)
           /\ Len(after) > Len(before) =>
                /\ after[Len(after)].name = S
                /\ \A n \in 1..Len(before) : before[n].name # S
                /\ OnlyChanged(<<>>, after[Len(after)].opts, K)
           /\ set(inst'[ret'.i], disk', ret'.key, ret'.value, ret'.section,
                  ret'.commit).r.parser = after]_vars

\* a set gave its value to a key that is not the last of its section
C37_Witness ==
  /\ ret.op = "set" /\ ret.exc = ""
  /\ \E n \in 1..Len(inst[ret.i].parser) :
       /\ inst[ret.i].parser[n].name = SectionOr(ret.section)
       /\ \E j \in 1..(Len(inst[ret.i].parser[n].opts) - 1) :
            /\ inst[ret.i].parser[n].opts[j].k = optionxform(inst[ret.i].cs, ret.key)
            /\ inst[ret.i].parser[n].opts[j].v = ret.value.v

(***************************************************************************)
(* SpecWith: one instance used in a with-block: it is given values in two  *)
(* sections, the block is left, and it is exported to os.environ before    *)
(* and after.                                                              *)
(***************************************************************************)
MaxWithOps == 4

WithKeys == {<<"a">>, <<"b">>}
WithValues == {PyStr(<<"1">>), PyStr(<<"o", "n">>)}

\* __exit__: self.close()
Exit(i) ==
  /\ Callable(i)
  /\ Return(i, close(inst[i], disk, FALSE), "exit", <<>>, <<>>, PyNone, FALSE, FALSE)

NextWith ==
  \/ Within(MaxWithOps) /\ Construct(1, <<"p">>)
  \/ \E k \in WithKeys, v \in WithValues, s \in CaseSections :
       Within(MaxWithOps) /\ Set(1, k, v, s, FALSE)
  \/ Within(MaxWithOps) /\ Exit(1)
  \/ \E b \in BOOLEAN : Within(MaxWithOps) /\ ToEnv(1, b)

SpecWith == Init /\ [][NextWith]_vars

\* C39: a to_env on an instance whose with-block was left returns and gives
\* os.environ, for every option of every section, the variable of the
\* option, with the section before it or without, with the text of what
\* get returns for it, as on an open instance; os.environ keeps what it had
\* under other names.
C39_ExportsAfterExit ==
  [][(ret'.op = "to_env" /\ inst[ret'.i].st = "closed") =>
       /\ ret'.exc = ""
       /\ ExportsAll(inst[ret'.i], disk, environ, environ', ret'.eval)
       /\ inst' = inst]_vars

\* a closed instance with options in two sections was exported without the
\* section before the names
C39_Witness ==
  /\ ret.op = "to_env" /\ ret.exc = "" /\ ~ret.eval
  /\ inst[ret.i].st = "closed"
  /\ Len(inst[ret.i].parser) = 2
  /\ inst[ret.i].parser[2].opts # <<>>
  /\ \A p \in Places(inst[ret.i]) : Upper(KeyAt(inst[ret.i], p)) \in EnvNames(environ)

====
